---- MODULE Spec2Model ----
(***************************************************************************)
(* A model of Patternsy's core (src/patternsy.py): the layout generator    *)
(* generate_pattern_coordinates, the shape rasterizer create_shape with    *)
(* the custom-image cache, the wrap-around compositor                      *)
(* draw_shape_with_tiling / draw_cropped_shape, and the builder            *)
(* create_pattern.                                                         *)
(*                                                                         *)
(* Each public function is an operation a caller may invoke.  The grid and *)
(* offset_grid layouts, create_shape and the compositor are single steps;  *)
(* the random and spiral layouts advance one loop iteration per step, and  *)
(* create_pattern one placement per step.                                  *)
(***************************************************************************)
EXTENDS Integers, Sequences, FiniteSets, TLC

VARIABLES
    pc,           \* where the function called is: idle, random, spiral, done, ...
    args,         \* arguments of the current / last layout call
    coordinates,  \* the list `coordinates` of generate_pattern_coordinates
    cand,         \* index `_` of the random layout's outer loop
    attempt,      \* index `attempt` of the random layout's inner loop
    rng,          \* state of the global generator of module `random`
    twin,         \* a second random-layout call with the same arguments, run in step
    t,            \* the spiral's angle, fixed point
    radii,        \* the spiral radius r at which each emitted point was computed
    files,        \* the file system: what is at each custom image path
    cache,        \* the global _custom_image_cache
    shape,        \* the current / last create_shape call and the buffer it returned
    canvas,       \* the current / last draw_shape_with_tiling call and its canvas
    build,        \* the create_pattern call in progress: its locals and what it wrote
    last          \* the create_pattern call that returned before, and whether a
                  \* file has changed since it began

layoutVars == <<pc, args, coordinates, cand, attempt, rng, twin, t, radii>>

renderVars == <<files, cache, shape, canvas, build, last>>

(***************************************************************************)
(* Bounds of the model.                                                    *)
(***************************************************************************)
MaxDim == 6          \* canvas width and height range over 1..MaxDim
MaxSpacing == 4      \* spacing_x and spacing_y range over 1..MaxSpacing
MaxRandomDim == 4    \* random layout: width and height range over 1..MaxRandomDim
MaxRandomSpacing == 3 \* random layout: spacings range over 1..MaxRandomSpacing
MaxShapes == 2       \* random layout: calls with num_shapes above this are not made
Entropy == 2         \* number of distinct OS-entropy seeds of random.seed()

Dims == 1..MaxDim
Spacings == 1..MaxSpacing

Max(a, b) == IF a >= b THEN a ELSE b
Min(a, b) == IF a <= b THEN a ELSE b
Abs(a) == IF a >= 0 THEN a ELSE -a

(***************************************************************************)
(* Python's range(start, stop, step) for step # 0, as a sequence.          *)
(***************************************************************************)
RECURSIVE RangeUpTo(_, _, _)
RangeUpTo(start, stop, step) ==
    IF start <= stop THEN <<start>> \o RangeUpTo(start + step, stop, step) ELSE <<>>

RECURSIVE Range(_, _, _)
Range(start, stop, step) ==
    IF (step > 0 /\ start < stop) \/ (step < 0 /\ start > stop)
    THEN <<start>> \o Range(start + step, stop, step)
    ELSE <<>>

\* [(x, y) for x in xs]
RowOf(xs, y) == [i \in 1..Len(xs) |-> <<xs[i], y>>]

(***************************************************************************)
(* pattern_type == "grid"                                                  *)
(***************************************************************************)
\* Mutant of GridCoordinates: the lattice starts at 0 instead of half a spacing.
RECURSIVE GridRowsFromZero(_, _, _, _)
GridRowsFromZero(ys, k, width, spacing_x) ==
    IF k > Len(ys) THEN <<>>
    ELSE RowOf(Range(0, width, spacing_x), ys[k])
             \o GridRowsFromZero(ys, k + 1, width, spacing_x)

GridCoordinatesFromZero(width, height, spacing_x, spacing_y) ==
    GridRowsFromZero(Range(0, height, spacing_y), 1, width, spacing_x)

RECURSIVE GridRows(_, _, _, _)
GridRows(ys, k, width, spacing_x) ==
    IF k > Len(ys) THEN <<>>
    ELSE RowOf(Range(spacing_x \div 2, width, spacing_x), ys[k])
             \o GridRows(ys, k + 1, width, spacing_x)

GridCoordinates(width, height, spacing_x, spacing_y) ==
    GridRows(Range(spacing_y \div 2, height, spacing_y), 1, width, spacing_x)

(***************************************************************************)
(* pattern_type == "offset_grid"; row_index = k - 1                        *)
(***************************************************************************)
\* Mutant of OffsetRowXs: the offset row stops at the canvas edge.
OffsetRowXsNotExtended(width, spacing_x) ==
    LET row_offset == spacing_x \div 2
    IN  Range(spacing_x \div 2 + row_offset, width, spacing_x)

OffsetRowXs(width, spacing_x) ==
    LET row_offset == spacing_x \div 2
    IN  Range(spacing_x \div 2 + row_offset, width + spacing_x, spacing_x)

RegularRowXs(width, spacing_x) == Range(spacing_x \div 2, width, spacing_x)

RECURSIVE OffsetGridRows(_, _, _, _)
OffsetGridRows(ys, k, width, spacing_x) ==
    IF k > Len(ys) THEN <<>>
    ELSE (IF (k - 1) % 2 = 1
          THEN RowOf(OffsetRowXs(width, spacing_x), ys[k])
          ELSE RowOf(RegularRowXs(width, spacing_x), ys[k]))
             \o OffsetGridRows(ys, k + 1, width, spacing_x)

OffsetGridCoordinates(width, height, spacing_x, spacing_y) ==
    OffsetGridRows(Range(spacing_y \div 2, height, spacing_y), 1, width, spacing_x)

NoArgs == [width |-> 0, height |-> 0, spacing_x |-> 0, spacing_y |-> 0,
           pattern_type |-> "none"]

Args(w, h, sx, sy, kind) ==
    [width |-> w, height |-> h, spacing_x |-> sx, spacing_y |-> sy,
     pattern_type |-> kind]

\* random.seed() with no argument seeds from OS entropy: any of the Entropy seeds.
OsSeed(k) == <<"os", k, 0, 0, 0>>

\* hash((width, height, spacing_x, spacing_y)): a function of the four integers.
HashSeed(w, h, sx, sy) == <<"hash", w, h, sx, sy>>

OsStates == {[seed |-> OsSeed(k), pos |-> 0] : k \in 1..Entropy}

\* Mutant of Seeded: the generator is left in its ambient state.
NotSeeded(ambient, w, h, sx, sy) == ambient

\* random.seed(hash((width, height, spacing_x, spacing_y))): the generator's
\* state after seeding, whatever its ambient state was.
Seeded(ambient, w, h, sx, sy) == [seed |-> HashSeed(w, h, sx, sy), pos |-> 0]

NoTwin == [active |-> FALSE, coordinates |-> <<>>, cand |-> 0, attempt |-> 0,
           rng |-> [seed |-> OsSeed(1), pos |-> 0],
           differ |-> FALSE]

(***************************************************************************)
(* pattern_type == "random"                                                *)
(***************************************************************************)
Attempts == 20

\* a // b for b # 0: the quotient rounded down
FloorDiv(a, b) == IF b > 0 THEN a \div b ELSE (-a) \div (-b)

\* int(n * 1.2): the product rounded toward zero
IntOfScaled(n) == IF n >= 0 THEN (n * 12) \div 10 ELSE -(((-n) * 12) \div 10)

\* num_shapes = int((width // spacing_x) * (height // spacing_y) * 1.2)
NumShapes(w, h, sx, sy) == IntOfScaled(FloorDiv(w, sx) * FloorDiv(h, sy))

\* Mutant of TooClose: a point is rejected when it is close on either axis.
TooCloseEitherAxis(coords, x, y, min_spacing_x, min_spacing_y) ==
    \E i \in 1..Len(coords) :
        LET dx == Abs(coords[i][1] - x)
            dy == Abs(coords[i][2] - y)
        IN  dx < min_spacing_x \/ dy < min_spacing_y

\* The loop over the existing points: too_close
TooClose(coords, x, y, min_spacing_x, min_spacing_y) ==
    \E i \in 1..Len(coords) :
        LET dx == Abs(coords[i][1] - x)
            dy == Abs(coords[i][2] - y)
        IN  dx < min_spacing_x /\ dy < min_spacing_y

\* Mutant of AfterAttempt: a candidate is given up only when it is accepted.
AfterAttemptNoSkip(st, x, y, a) ==
    LET min_spacing_x == a.spacing_x \div 3
        min_spacing_y == a.spacing_y \div 3
        too_close == TooClose(st.coordinates, x, y, min_spacing_x, min_spacing_y)
    IN  [coordinates |-> IF too_close THEN st.coordinates
                         ELSE Append(st.coordinates, <<x, y>>),
         cand |-> IF ~too_close THEN st.cand + 1 ELSE st.cand,
         attempt |-> IF ~too_close THEN 0 ELSE st.attempt + 1,
         rng |-> [seed |-> st.rng.seed, pos |-> st.rng.pos + 2]]

\* One iteration of the inner loop with the draws x, y, on the call's locals
\* st = [coordinates, cand, attempt, rng]; two randint calls advance the
\* generator by two.
AfterAttempt(st, x, y, a) ==
    LET min_spacing_x == a.spacing_x \div 3
        min_spacing_y == a.spacing_y \div 3
        too_close == TooClose(st.coordinates, x, y, min_spacing_x, min_spacing_y)
        next_cand == ~too_close \/ st.attempt = Attempts - 1
    IN  [coordinates |-> IF too_close THEN st.coordinates
                         ELSE Append(st.coordinates, <<x, y>>),
         cand |-> IF next_cand THEN st.cand + 1 ELSE st.cand,
         attempt |-> IF next_cand THEN 0 ELSE st.attempt + 1,
         rng |-> [seed |-> st.rng.seed, pos |-> st.rng.pos + 2]]

Callable == pc = "idle"

LayoutInit ==
    /\ pc = "idle"
    /\ args = NoArgs
    /\ coordinates = <<>>
    /\ cand = 0
    /\ attempt = 0
    /\ rng = [seed |-> OsSeed(1), pos |-> 0]
    /\ twin = NoTwin
    /\ t = 0
    /\ radii = <<>>

\* The documented scenario: a 512 x 512 canvas with spacing 128.
Scenario == <<512, 512, 128, 128>>

\* The (width, height, spacing_x, spacing_y) the grid layouts are called with.
GridInputs == (Dims \X Dims \X Spacings \X Spacings) \cup {Scenario}

\* generate_pattern_coordinates(width, height, spacing_x, spacing_y, "grid")
CallGrid ==
    /\ Callable
    /\ \E in \in GridInputs :
          /\ args' = Args(in[1], in[2], in[3], in[4], "grid")
          /\ coordinates' = GridCoordinates(in[1], in[2], in[3], in[4])
    /\ pc' = "done"
    /\ cand' = 0 /\ attempt' = 0 /\ t' = 0 /\ radii' = <<>>
    /\ UNCHANGED <<rng, twin>>
    /\ UNCHANGED renderVars

\* generate_pattern_coordinates(width, height, spacing_x, spacing_y, "offset_grid")
CallOffsetGrid ==
    /\ Callable
    /\ \E in \in GridInputs :
          /\ args' = Args(in[1], in[2], in[3], in[4], "offset_grid")
          /\ coordinates' = OffsetGridCoordinates(in[1], in[2], in[3], in[4])
    /\ pc' = "done"
    /\ cand' = 0 /\ attempt' = 0 /\ t' = 0 /\ radii' = <<>>
    /\ UNCHANGED <<rng, twin>>
    /\ UNCHANGED renderVars

\* A canvas two spacings wide whose minimum spacing min_spacing_x is 2.
SeamCase == <<12, 3, 6, 3>>

\* The (width, height, spacing_x, spacing_y) the random layout is called with.
RandomInputs ==
    {in \in (1..MaxRandomDim) \X (1..MaxRandomDim)
                \X (1..MaxRandomSpacing) \X (1..MaxRandomSpacing) :
        NumShapes(in[1], in[2], in[3], in[4]) <= MaxShapes} \cup {SeamCase}

ArgNumShapes == NumShapes(args.width, args.height, args.spacing_x, args.spacing_y)

\* generate_pattern_coordinates(..., "random") up to the loops: seed the generator.
CallRandom ==
    /\ Callable
    /\ \E in \in RandomInputs :
          /\ args' = Args(in[1], in[2], in[3], in[4], "random")
          /\ rng' = Seeded(rng, in[1], in[2], in[3], in[4])
    /\ pc' = "random"
    /\ coordinates' = <<>>
    /\ cand' = 0 /\ attempt' = 0 /\ t' = 0 /\ radii' = <<>>
    /\ UNCHANGED twin
    /\ UNCHANGED renderVars

\* One iteration of `for attempt in range(20)`; the two draws are any values
\* randint can return.
RandomAttempt ==
    /\ pc = "random"
    /\ cand < ArgNumShapes
    /\ \E x \in 0..(args.width - 1), y \in 0..(args.height - 1) :
          LET st == AfterAttempt([coordinates |-> coordinates, cand |-> cand,
                                  attempt |-> attempt, rng |-> rng], x, y, args)
          IN  /\ coordinates' = st.coordinates
              /\ cand' = st.cand
              /\ attempt' = st.attempt
              /\ rng' = st.rng
    /\ UNCHANGED <<pc, args, twin, t, radii>>
    /\ UNCHANGED renderVars

\* The outer loop is over: random.seed() reseeds from OS entropy, and return.
RandomFinish ==
    /\ pc = "random"
    /\ ~ (cand < ArgNumShapes)
    /\ rng' \in OsStates
    /\ pc' = "done"
    /\ UNCHANGED <<args, coordinates, cand, attempt, twin, t, radii>>
    /\ UNCHANGED renderVars

(***************************************************************************)
(* Two random-layout calls A and B with the same arguments, made from any  *)
(* two ambient generator states and advanced in step.  The generator is a  *)
(* deterministic function of its state: in equal states the two calls draw *)
(* equal values, in different states any values.  Call A runs on the       *)
(* layout variables, call B on `twin`; twin.differ records whether the two *)
(* ambient states differed.                                                *)
(***************************************************************************)
TwinCall ==
    /\ Callable
    /\ \E in \in RandomInputs, ambientB \in OsStates :
          /\ args' = Args(in[1], in[2], in[3], in[4], "random")
          /\ rng' = Seeded(rng, in[1], in[2], in[3], in[4])
          /\ twin' = [active |-> TRUE, coordinates |-> <<>>, cand |-> 0,
                      attempt |-> 0,
                      rng |-> Seeded(ambientB, in[1], in[2], in[3], in[4]),
                      differ |-> rng # ambientB]
    /\ pc' = "twin"
    /\ coordinates' = <<>>
    /\ cand' = 0 /\ attempt' = 0 /\ t' = 0 /\ radii' = <<>>
    /\ UNCHANGED renderVars

TwinAttempt ==
    /\ pc = "twin"
    /\ cand < ArgNumShapes \/ twin.cand < ArgNumShapes
    /\ \E xA \in 0..(args.width - 1), yA \in 0..(args.height - 1),
          xB \in 0..(args.width - 1), yB \in 0..(args.height - 1) :
          /\ rng = twin.rng => (xA = xB /\ yA = yB)
          /\ LET stA == AfterAttempt([coordinates |-> coordinates, cand |-> cand,
                                      attempt |-> attempt, rng |-> rng],
                                     xA, yA, args)
                 stB == AfterAttempt(twin, xB, yB, args)
             IN  /\ IF cand < ArgNumShapes
                    THEN /\ coordinates' = stA.coordinates
                         /\ cand' = stA.cand
                         /\ attempt' = stA.attempt
                         /\ rng' = stA.rng
                    ELSE UNCHANGED <<coordinates, cand, attempt, rng>>
                 /\ IF twin.cand < ArgNumShapes
                    THEN twin' = [twin EXCEPT !.coordinates = stB.coordinates,
                                              !.cand = stB.cand,
                                              !.attempt = stB.attempt,
                                              !.rng = stB.rng]
                    ELSE UNCHANGED twin
    /\ UNCHANGED <<pc, args, t, radii>>
    /\ UNCHANGED renderVars

TwinFinish ==
    /\ pc = "twin"
    /\ cand = ArgNumShapes /\ twin.cand = ArgNumShapes
    /\ rng' \in OsStates
    /\ \E r \in OsStates : twin' = [twin EXCEPT !.rng = r]
    /\ pc' = "done"
    /\ UNCHANGED <<args, coordinates, cand, attempt, t, radii>>
    /\ UNCHANGED renderVars

(***************************************************************************)
(* pattern_type == "spiral".  Python floats are modelled in fixed point    *)
(* with 24 fractional bits: the real v is the integer floor(v * One).      *)
(* Products and quotients are computed from 12-bit halves, so that no      *)
(* intermediate value exceeds 31 bits.                                     *)
(***************************************************************************)
HalfUnit == 2^12
One == HalfUnit * HalfUnit

\* math.pi, 2 * math.pi and math.pi / 2 in fixed point
Pi == 52707179
TwoPi == 105414357
HalfPi == 26353589

\* The value of F at v, with v evaluated once.
At(v, F(_)) == CHOOSE r \in {F(u) : u \in {v}} : TRUE

\* floor(a * b / One) for a, b >= 0
MulHalves(a1, a0, b1, b0) ==
    a1 * b1 + (a1 * b0 + a0 * b1 + (a0 * b0) \div HalfUnit) \div HalfUnit

MulFix(a, b) ==
    At(<<a, b>>, LAMBDA p : MulHalves(p[1] \div HalfUnit, p[1] % HalfUnit,
                                       p[2] \div HalfUnit, p[2] % HalfUnit))

\* a * b for a >= 0 and b of either sign
MulSigned(a, b) ==
    At(b, LAMBDA v : IF v >= 0 THEN MulFix(a, v) ELSE -MulFix(a, -v))

\* Long division, one bit per step: n more bits of the quotient q.
RECURSIVE DivBits(_, _, _, _)
DivBits(q, rem, b, n) ==
    IF n = 0 THEN q
    ELSE IF 2 * rem >= b THEN DivBits(2 * q + 1, 2 * rem - b, b, n - 1)
         ELSE DivBits(2 * q, 2 * rem, b, n - 1)

\* floor(a * One / b) for a >= 0, b > 0
DivFix(a, b) ==
    At(<<a, b>>, LAMBDA p : DivBits(p[1] \div p[2], p[1] % p[2], p[2], 24))

\* cos on [0, pi/2]: the Taylor series 1 - y/2 (1 - y/12 (1 - y/30 (...))),
\* y = x * x, evaluated from the innermost of eight terms.
RECURSIVE CosSeries(_, _, _)
CosSeries(y, k, u) ==
    IF k = 0 THEN u
    ELSE At(One - MulFix(y, u) \div ((2 * k - 1) * (2 * k)),
            LAMBDA v : CosSeries(y, k - 1, v))

\* math.cos(t)
Cos(angle) ==
    At(angle % TwoPi, LAMBDA m :
        At(IF m > Pi THEN TwoPi - m ELSE m, LAMBDA n :
            IF n > HalfPi
            THEN At(MulFix(Pi - n, Pi - n), LAMBDA y : -CosSeries(y, 8, One))
            ELSE At(MulFix(n, n), LAMBDA y : CosSeries(y, 8, One))))

\* math.sin(t)
Sin(angle) == Cos(angle - HalfPi)

\* a = spacing_x / (2 * math.pi) and b = spacing_y / 20
SpiralA(spacing_x) == DivFix(spacing_x * One, TwoPi)
SpiralB(spacing_y) == (spacing_y * One) \div 20

\* Mutant of Radius: the radius is taken from the angle within the current turn.
RadiusOfTurn(spacing_x, angle) == MulFix(SpiralA(spacing_x), angle % TwoPi)

\* r = a * t
Radius(spacing_x, angle) == MulFix(SpiralA(spacing_x), angle)

\* Mutant of Advance: no step when r is 0.
AdvanceNoFallback(spacing_y, r) ==
    IF r > 0 THEN DivFix(SpiralB(spacing_y), r) ELSE 0

\* The step of t: b / r if r > 0 else b
Advance(spacing_y, r) ==
    IF r > 0 THEN DivFix(SpiralB(spacing_y), r) ELSE SpiralB(spacing_y)

\* int(v) of a float v >= 0
IntOf(v) == v \div One

SpiralInputs == Dims \X Dims \X Spacings \X Spacings

\* generate_pattern_coordinates(..., "spiral") up to the loop
CallSpiral ==
    /\ Callable
    /\ \E in \in SpiralInputs : args' = Args(in[1], in[2], in[3], in[4], "spiral")
    /\ pc' = "spiral"
    /\ t' = 0
    /\ coordinates' = <<>>
    /\ radii' = <<>>
    /\ cand' = 0 /\ attempt' = 0
    /\ UNCHANGED <<rng, twin>>
    /\ UNCHANGED renderVars

MaxRadius == Min(args.width, args.height) \div 2

\* One iteration of `while True` that does not break.
SpiralStep ==
    /\ pc = "spiral"
    /\ \E r \in {Radius(args.spacing_x, t)} :
          /\ ~ (r > MaxRadius * One)
          /\ \E x \in {(args.width \div 2) * One + MulSigned(r, Cos(t))},
                y \in {(args.height \div 2) * One + MulSigned(r, Sin(t))} :
                IF 0 <= x /\ x < args.width * One /\ 0 <= y /\ y < args.height * One
                THEN /\ coordinates' = Append(coordinates, <<IntOf(x), IntOf(y)>>)
                     /\ radii' = Append(radii, r)
                ELSE UNCHANGED <<coordinates, radii>>
          /\ t' = t + Advance(args.spacing_y, r)
    /\ UNCHANGED <<pc, args, cand, attempt, rng, twin>>
    /\ UNCHANGED renderVars

\* r > max_radius: break, and return.
SpiralExit ==
    /\ pc = "spiral"
    /\ Radius(args.spacing_x, t) > MaxRadius * One
    /\ pc' = "done"
    /\ UNCHANGED <<args, coordinates, cand, attempt, rng, twin, t, radii>>
    /\ UNCHANGED renderVars

(***************************************************************************)
(* generate_pattern_coordinates validates nothing: the same code on        *)
(* arguments of which at least one is zero or negative.  A call ends in    *)
(* pc = "done" (a list is returned) or pc = "raised" (an exception leaves  *)
(* the function).  The spiral is called with a positive spacing_x and a    *)
(* non-negative spacing_y only, and a non-positive width or height: with   *)
(* other arguments its loop runs through unboundedly many values of t or   *)
(* appends without end.                                                    *)
(***************************************************************************)
UncheckedReach == 2  \* unchecked arguments range over -UncheckedReach..UncheckedReach

Unchecked == (-UncheckedReach)..UncheckedReach

UncheckedInputs ==
    {in \in Unchecked \X Unchecked \X Unchecked \X Unchecked :
        in[1] <= 0 \/ in[2] <= 0 \/ in[3] <= 0 \/ in[4] <= 0}

\* range() raises ValueError for a step of zero: the outer range always, the
\* inner one when a row is reached.
GridRaises(width, height, spacing_x, spacing_y) ==
    \/ spacing_y = 0
    \/ spacing_x = 0 /\ Range(spacing_y \div 2, height, spacing_y) # <<>>

\* generate_pattern_coordinates(..., "grid" or "offset_grid"), unchecked
CallGridUnchecked ==
    /\ Callable
    /\ \E in \in UncheckedInputs, kind \in {"grid", "offset_grid"} :
          /\ args' = Args(in[1], in[2], in[3], in[4], kind)
          /\ IF GridRaises(in[1], in[2], in[3], in[4])
             THEN /\ pc' = "raised"
                  /\ coordinates' = <<>>
             ELSE /\ pc' = "done"
                  /\ coordinates' =
                        IF kind = "grid"
                        THEN GridCoordinates(in[1], in[2], in[3], in[4])
                        ELSE OffsetGridCoordinates(in[1], in[2], in[3], in[4])
    /\ cand' = 0 /\ attempt' = 0 /\ t' = 0 /\ radii' = <<>>
    /\ UNCHANGED <<rng, twin>>
    /\ UNCHANGED renderVars

UncheckedRandomInputs ==
    {in \in UncheckedInputs :
        in[3] = 0 \/ in[4] = 0 \/ NumShapes(in[1], in[2], in[3], in[4]) <= MaxShapes}

\* generate_pattern_coordinates(..., "random"), unchecked, up to the loops:
\* width // spacing_x raises ZeroDivisionError after the generator was seeded.
CallRandomUnchecked ==
    /\ Callable
    /\ \E in \in UncheckedRandomInputs :
          /\ args' = Args(in[1], in[2], in[3], in[4], "random")
          /\ rng' = Seeded(rng, in[1], in[2], in[3], in[4])
          /\ pc' = IF in[3] = 0 \/ in[4] = 0 THEN "raised" ELSE "random"
    /\ coordinates' = <<>>
    /\ cand' = 0 /\ attempt' = 0 /\ t' = 0 /\ radii' = <<>>
    /\ UNCHANGED twin
    /\ UNCHANGED renderVars

\* random.randint(0, width - 1) raises ValueError on an empty range.
RandomRaise ==
    /\ pc = "random"
    /\ cand < ArgNumShapes
    /\ args.width <= 0 \/ args.height <= 0
    /\ pc' = "raised"
    /\ rng' = [seed |-> rng.seed, pos |-> rng.pos + (IF args.width <= 0 THEN 0 ELSE 1)]
    /\ UNCHANGED <<args, coordinates, cand, attempt, twin, t, radii>>
    /\ UNCHANGED renderVars

UncheckedSpiralInputs ==
    {in \in UncheckedInputs : in[3] >= 1 /\ in[4] >= 0 /\ (in[1] <= 0 \/ in[2] <= 0)}

\* generate_pattern_coordinates(..., "spiral"), unchecked, up to the loop
CallSpiralUnchecked ==
    /\ Callable
    /\ \E in \in UncheckedSpiralInputs :
          args' = Args(in[1], in[2], in[3], in[4], "spiral")
    /\ pc' = "spiral"
    /\ t' = 0
    /\ coordinates' = <<>>
    /\ radii' = <<>>
    /\ cand' = 0 /\ attempt' = 0
    /\ UNCHANGED <<rng, twin>>
    /\ UNCHANGED renderVars

(***************************************************************************)
(* create_shape and get_cached_custom_image.  A buffer is its size, what   *)
(* was drawn into it, and the angle it was rotated by.                     *)
(***************************************************************************)
MaxShapeDim == 2     \* shape_width and shape_height range over 1..MaxShapeDim

ShapeDims == 1..MaxShapeDim

\* The five shape types, and one that create_shape does not know.
ShapeTypes == {"circle", "square", "triangle", "star", "custom", "hexagon"}

Colors == {"red", "blue"}

\* rotation, in degrees
Rotations == {0, 90}

\* custom_image_path: empty, or the path of a file that may exist
FilePaths == {"tile.png"}
Paths == {""} \cup FilePaths

\* What is at a path: nothing, a file that is no image, or an image file.
FileStates == {"missing", "corrupt", "image"}

\* Image.new("RGBA", (shape_width, shape_height), (0, 0, 0, 0))
NewBuffer(w, h) ==
    [width |-> w, height |-> h, content |-> <<"transparent", "">>, rotation |-> 0]

\* draw.ellipse / draw.rectangle / draw.polygon over the whole buffer
Draw(buf, figure, color) == [buf EXCEPT !.content = <<figure, color>>]

\* Mutant of Open: a file that is no image decodes to some bitmap.
OpenAnything(path) ==
    [raised |-> FALSE,
     img |-> [width |-> 3, height |-> 1, content |-> <<"bitmap", path>>,
              rotation |-> 0]]

\* Image.open(path).convert("RGBA"): the file's bitmap at its own size (3 x 1),
\* or an exception.
Open(path) ==
    IF files[path] = "image"
    THEN [raised |-> FALSE,
          img |-> [width |-> 3, height |-> 1, content |-> <<"bitmap", path>>,
                   rotation |-> 0]]
    ELSE [raised |-> TRUE, img |-> NewBuffer(0, 0)]

\* custom_img.resize((shape_width, shape_height), Image.LANCZOS)
Resize(img, w, h) == [img EXCEPT !.width = w, !.height = h]

\* Mutant of Rotate: rotate(rotation, expand=True), a quarter turn swaps the sides.
RotateExpanded(buf, angle) ==
    [buf EXCEPT !.rotation = angle, !.width = buf.height, !.height = buf.width]

\* shape_img.rotate(rotation, resample=Image.NEAREST, expand=False)
Rotate(buf, angle) == [buf EXCEPT !.rotation = angle]

\* os.path.exists(custom_image_path), for a non-empty path
Exists(path) == files[path] # "missing"

\* Mutant of GetCachedCustomImage: the cache is written but never read.
GetCachedCustomImageReloading(custom_image_path, shape_width, shape_height) ==
    LET cache_key == <<custom_image_path, shape_width, shape_height>>
        opened == Open(custom_image_path)
        custom_img == Resize(opened.img, shape_width, shape_height)
        none == [found |-> FALSE, img |-> NewBuffer(0, 0), cache |-> cache,
                 decoded |-> FALSE, error |-> FALSE]
    IN  IF custom_image_path = "" \/ ~Exists(custom_image_path) THEN none
        ELSE IF ~opened.raised
        THEN [none EXCEPT !.found = TRUE, !.img = custom_img,
                          !.cache = (cache_key :> custom_img) @@ cache,
                          !.decoded = TRUE]
        ELSE [none EXCEPT !.decoded = TRUE, !.error = TRUE]

\* get_cached_custom_image: the image returned (found = FALSE for None), the
\* cache after the call, whether the file was opened for decoding, and whether
\* the loading error was printed.
GetCachedCustomImage(custom_image_path, shape_width, shape_height) ==
    LET cache_key == <<custom_image_path, shape_width, shape_height>>
        opened == Open(custom_image_path)
        custom_img == Resize(opened.img, shape_width, shape_height)
        none == [found |-> FALSE, img |-> NewBuffer(0, 0), cache |-> cache,
                 decoded |-> FALSE, error |-> FALSE]
    IN  IF custom_image_path = "" \/ ~Exists(custom_image_path) THEN none
        ELSE IF cache_key \in DOMAIN cache
        THEN [none EXCEPT !.found = TRUE, !.img = cache[cache_key]]
        ELSE IF ~opened.raised
        THEN [none EXCEPT !.found = TRUE, !.img = custom_img,
                          !.cache = (cache_key :> custom_img) @@ cache,
                          !.decoded = TRUE]
        ELSE [none EXCEPT !.decoded = TRUE, !.error = TRUE]

\* create_shape up to the rotation: the buffer, the cache and the error flag.
ShapeImage(shape_type, shape_width, shape_height, color, custom_image_path) ==
    LET shape_img == NewBuffer(shape_width, shape_height)
        drawn(figure) == [img |-> Draw(shape_img, figure, color), cache |-> cache,
                          decoded |-> FALSE, error |-> FALSE]
        got == GetCachedCustomImage(custom_image_path, shape_width, shape_height)
    IN  CASE shape_type = "circle" -> drawn("ellipse")
          [] shape_type = "square" -> drawn("rectangle")
          [] shape_type = "triangle" -> drawn("triangle")
          [] shape_type = "star" -> drawn("star")
          [] shape_type = "custom" /\ custom_image_path # ""
                 /\ Exists(custom_image_path) ->
                 IF got.found
                 THEN [img |-> got.img, cache |-> got.cache,
                       decoded |-> got.decoded, error |-> FALSE]
                 ELSE [drawn("ellipse") EXCEPT !.decoded = got.decoded,
                                               !.error = got.error]
          [] OTHER -> drawn("ellipse")

\* create_shape(shape_type, shape_width, shape_height, color, rotation,
\*              custom_image_path)
CreateShape(shape_type, shape_width, shape_height, color, rotation, custom_image_path) ==
    LET made == ShapeImage(shape_type, shape_width, shape_height, color,
                           custom_image_path)
    IN  [made EXCEPT !.img = IF rotation # 0 THEN Rotate(made.img, rotation)
                             ELSE made.img]

NoShape ==
    [called |-> FALSE, shape_type |-> "none", shape_width |-> 0,
     shape_height |-> 0, color |-> "none", rotation |-> 0,
     custom_image_path |-> "", seen |-> "none", hit |-> FALSE,
     decoded |-> FALSE, error |-> FALSE, img |-> NewBuffer(0, 0)]

\* A call of create_shape.  Besides the arguments and the result, `shape`
\* records what the call found at the path (seen), whether the cache held the
\* key when the call was made (hit) and whether the call opened the file
\* (decoded).
CallCreateShape ==
    /\ Callable
    /\ \E shape_type \in ShapeTypes, shape_width \in ShapeDims,
          shape_height \in ShapeDims, color \in Colors, rotation \in Rotations,
          custom_image_path \in Paths :
          LET made == CreateShape(shape_type, shape_width, shape_height, color,
                                  rotation, custom_image_path)
          IN  /\ shape' = [called |-> TRUE, shape_type |-> shape_type,
                            shape_width |-> shape_width,
                            shape_height |-> shape_height, color |-> color,
                            rotation |-> rotation,
                            custom_image_path |-> custom_image_path,
                            seen |-> IF custom_image_path = "" THEN "none"
                                     ELSE files[custom_image_path],
                            hit |-> <<custom_image_path, shape_width,
                                      shape_height>> \in DOMAIN cache,
                            decoded |-> made.decoded,
                            error |-> made.error,
                            img |-> made.img]
              /\ cache' = made.cache
    /\ pc' = "done"
    /\ UNCHANGED <<args, coordinates, cand, attempt, rng, twin, t, radii>>
    /\ UNCHANGED <<files, canvas, build, last>>

\* The environment: a file is written, overwritten or deleted, between two
\* steps of a caller (not while create_pattern runs), once between
\* create_pattern and its repetition.
FileChange ==
    /\ pc \in {"idle", "done", "raised"} \/ (pc = "built" /\ ~last.touched)
    /\ \E path \in FilePaths, state \in FileStates :
          /\ state # files[path]
          /\ files' = [files EXCEPT ![path] = state]
    /\ last' = IF pc = "idle" THEN last ELSE [last EXCEPT !.touched = TRUE]
    /\ UNCHANGED layoutVars
    /\ UNCHANGED <<cache, shape, canvas, build>>

(***************************************************************************)
(* draw_shape_with_tiling and draw_cropped_shape.  The canvas maps each    *)
(* pixel (x, y) to the set of shape pixels (i, j) pasted onto it.          *)
(***************************************************************************)
MaxCanvasDim == 3    \* canvas width and height range over 1..MaxCanvasDim
MaxDrawnDim == 4     \* sides of the pasted shape range over 1..MaxDrawnDim
MaxReach == 4        \* paste_x and paste_y range over -MaxReach..MaxReach

\* Image.new("RGBA", (aa_width, aa_height), bg_color)
NewCanvas(width, height) ==
    [p \in (0..(width - 1)) \X (0..(height - 1)) |-> {}]

\* Mutant of VisibleBox: the right and bottom edges are not clamped to the canvas.
VisibleBoxUnclamped(shape_width, shape_height, paste_x, paste_y, width, height) ==
    LET left == Max(0, paste_x)
        top == Max(0, paste_y)
        right == paste_x + shape_width
        bottom == paste_y + shape_height
        shape_left == left - paste_x
        shape_top == top - paste_y
    IN  [visible |-> right > left /\ bottom > top,
         left |-> left, top |-> top, right |-> right, bottom |-> bottom,
         shape_left |-> shape_left, shape_top |-> shape_top,
         shape_right |-> shape_left + (right - left),
         shape_bottom |-> shape_top + (bottom - top)]

\* The rectangles draw_cropped_shape computes: the intersection of the shape
\* with the canvas, and the part of the shape buffer that falls in it.
VisibleBox(shape_width, shape_height, paste_x, paste_y, width, height) ==
    LET left == Max(0, paste_x)
        top == Max(0, paste_y)
        right == Min(width, paste_x + shape_width)
        bottom == Min(height, paste_y + shape_height)
        shape_left == left - paste_x
        shape_top == top - paste_y
    IN  [visible |-> right > left /\ bottom > top,
         left |-> left, top |-> top, right |-> right, bottom |-> bottom,
         shape_left |-> shape_left, shape_top |-> shape_top,
         shape_right |-> shape_left + (right - left),
         shape_bottom |-> shape_top + (bottom - top)]

\* shape_img.crop(box): a buffer of the size of the box; its pixel (u, v)
\* holds the shape pixel under it, and nothing where the box leaves the shape.
Crop(shape_width, shape_height, box) ==
    [q \in (0..(box.shape_right - box.shape_left - 1))
              \X (0..(box.shape_bottom - box.shape_top - 1)) |->
        LET i == box.shape_left + q[1]
            j == box.shape_top + q[2]
        IN  IF 0 <= i /\ i < shape_width /\ 0 <= j /\ j < shape_height
            THEN {<<i, j>>} ELSE {}]

\* img.paste(visible_shape, (left, top), visible_shape): the buffer is put on
\* the canvas from (left, top); what falls off the canvas is dropped.
Paste(img, buf, left, top) ==
    [p \in DOMAIN img |->
        IF <<p[1] - left, p[2] - top>> \in DOMAIN buf
        THEN img[p] \cup buf[<<p[1] - left, p[2] - top>>]
        ELSE img[p]]

\* draw_cropped_shape(img, shape_img, paste_x, paste_y, width, height)
DrawCroppedShape(img, shape_width, shape_height, paste_x, paste_y, width, height) ==
    LET box == VisibleBox(shape_width, shape_height, paste_x, paste_y, width, height)
    IN  IF box.visible
        THEN Paste(img, Crop(shape_width, shape_height, box), box.left, box.top)
        ELSE img

\* draw_shape_with_tiling(img, shape_img, paste_x, paste_y, width, height)
DrawShapeWithTiling(img, shape_width, shape_height, paste_x, paste_y, width, height) ==
    LET crop(on, x, y) ==
            DrawCroppedShape(on, shape_width, shape_height, x, y, width, height)
        main == crop(img, paste_x, paste_y)
        horizontal ==
            IF paste_x < 0 THEN crop(main, paste_x + width, paste_y)
            ELSE IF paste_x + shape_width > width
            THEN crop(main, paste_x - width, paste_y)
            ELSE main
        vertical ==
            IF paste_y < 0 THEN crop(horizontal, paste_x, paste_y + height)
            ELSE IF paste_y + shape_height > height
            THEN crop(horizontal, paste_x, paste_y - height)
            ELSE horizontal
    IN  IF paste_x < 0 /\ paste_y < 0
        THEN crop(vertical, paste_x + width, paste_y + height)
        ELSE IF paste_x < 0 /\ paste_y + shape_height > height
        THEN crop(vertical, paste_x + width, paste_y - height)
        ELSE IF paste_x + shape_width > width /\ paste_y < 0
        THEN crop(vertical, paste_x - width, paste_y + height)
        ELSE IF paste_x + shape_width > width /\ paste_y + shape_height > height
        THEN crop(vertical, paste_x - width, paste_y - height)
        ELSE vertical

\* Mutant of TilingOrigins: a shape that crosses two opposite edges is wrapped
\* to both sides.
TilingOriginsBothSides(shape_width, shape_height, paste_x, paste_y, width, height) ==
    <<<<paste_x, paste_y>>>>
        \o (IF paste_x < 0 THEN <<<<paste_x + width, paste_y>>>> ELSE <<>>)
        \o (IF paste_x + shape_width > width
            THEN <<<<paste_x - width, paste_y>>>> ELSE <<>>)
        \o (IF paste_y < 0 THEN <<<<paste_x, paste_y + height>>>> ELSE <<>>)
        \o (IF paste_y + shape_height > height
            THEN <<<<paste_x, paste_y - height>>>> ELSE <<>>)

\* The origins draw_shape_with_tiling passes to draw_cropped_shape, in the
\* order of the calls.
TilingOrigins(shape_width, shape_height, paste_x, paste_y, width, height) ==
    LET main == <<<<paste_x, paste_y>>>>
        horizontal ==
            IF paste_x < 0 THEN <<<<paste_x + width, paste_y>>>>
            ELSE IF paste_x + shape_width > width
            THEN <<<<paste_x - width, paste_y>>>>
            ELSE <<>>
        vertical ==
            IF paste_y < 0 THEN <<<<paste_x, paste_y + height>>>>
            ELSE IF paste_y + shape_height > height
            THEN <<<<paste_x, paste_y - height>>>>
            ELSE <<>>
        corner ==
            IF paste_x < 0 /\ paste_y < 0
            THEN <<<<paste_x + width, paste_y + height>>>>
            ELSE IF paste_x < 0 /\ paste_y + shape_height > height
            THEN <<<<paste_x + width, paste_y - height>>>>
            ELSE IF paste_x + shape_width > width /\ paste_y < 0
            THEN <<<<paste_x - width, paste_y + height>>>>
            ELSE IF paste_x + shape_width > width /\ paste_y + shape_height > height
            THEN <<<<paste_x - width, paste_y - height>>>>
            ELSE <<>>
    IN  main \o horizontal \o vertical \o corner

NoCanvas ==
    [called |-> FALSE, width |-> 0, height |-> 0, shape_width |-> 0,
     shape_height |-> 0, paste_x |-> 0, paste_y |-> 0, origins |-> <<>>,
     img |-> NewCanvas(0, 0)]

\* A call of draw_shape_with_tiling on a fresh canvas.
CallDrawShapeWithTiling ==
    /\ Callable
    /\ \E width \in 1..MaxCanvasDim, height \in 1..MaxCanvasDim,
          shape_width \in 1..MaxDrawnDim, shape_height \in 1..MaxDrawnDim,
          paste_x \in (-MaxReach)..MaxReach, paste_y \in (-MaxReach)..MaxReach :
          canvas' = [called |-> TRUE, width |-> width, height |-> height,
                     shape_width |-> shape_width, shape_height |-> shape_height,
                     paste_x |-> paste_x, paste_y |-> paste_y,
                     origins |-> TilingOrigins(shape_width, shape_height,
                                               paste_x, paste_y, width, height),
                     img |-> DrawShapeWithTiling(NewCanvas(width, height),
                                                 shape_width, shape_height,
                                                 paste_x, paste_y, width, height)]
    /\ pc' = "done"
    /\ UNCHANGED <<args, coordinates, cand, attempt, rng, twin, t, radii>>
    /\ UNCHANGED <<files, cache, shape, build, last>>

(***************************************************************************)
(* create_pattern.  The canvas is its size, its mode, the shapes composited *)
(* onto it in order, each with the origins it was drawn at, and whether it *)
(* was resampled to another size.                                          *)
(***************************************************************************)
MaxBuildDim == 2      \* width and height of a build range over 1..MaxBuildDim
MaxBuildSpacing == 2  \* the spacings of a build range over 1..MaxBuildSpacing
AaScale == 2          \* aa_scale of a build
MaxDraws == 2         \* random.uniform is drawn at most this often in a call
MaxPlacements == 6    \* calls whose layout has more points than this are not made
SpiralDoublings == 12 \* the spiral's loop is followed for 2^SpiralDoublings iterations

\* A parameter that defaults to None: <<>> for None, <<v>> for the value v.
None == <<>>

\* lines 79-87: `if v is None: v = fallback`
Resolved(v, fallback) == IF v = None THEN fallback ELSE v[1]

\* Mutant of Aa: the value is never scaled.
AaOff(antialiasing, aa_scale, v) == v

\* lines 90-103: a dimension at the working resolution
Aa(antialiasing, aa_scale, v) == IF antialiasing THEN v * aa_scale ELSE v

\* int(n / 2): the quotient rounded toward zero
IntOfHalves(n) == IF n >= 0 THEN n \div 2 ELSE -((-n) \div 2)

\* The shape and spacing parameters of a call, given directly or through the
\* legacy base_scale and spacing.
BuildShapes ==
    {[base_scale |-> 1, shape_width |-> None, shape_height |-> None],
     [base_scale |-> 32, shape_width |-> <<2>>, shape_height |-> <<2>>]}

BuildSpacings ==
    {[spacing |-> 1, spacing_x |-> None, spacing_y |-> None],
     [spacing |-> 128, spacing_x |-> <<MaxBuildSpacing>>,
      spacing_y |-> <<MaxBuildSpacing>>]}

PatternTypes == {"grid", "offset_grid", "random", "spiral"}

\* The working resolution of a configuration.
AaOf(cfg) ==
    LET on(v) == Aa(cfg.antialiasing, cfg.aa_scale, v)
    IN  [width |-> on(cfg.width), height |-> on(cfg.height),
         shape_width |-> on(Resolved(cfg.shape_width, cfg.base_scale)),
         shape_height |-> on(Resolved(cfg.shape_height, cfg.base_scale)),
         spacing_x |-> on(Resolved(cfg.spacing_x, cfg.spacing)),
         spacing_y |-> on(Resolved(cfg.spacing_y, cfg.spacing))]

\* The configurations create_pattern is called with: canvases no higher than
\* wide.  The per-shape random draws are made with the grid layout,
\* antialiasing off and the shape size base_scale; the random layout is called
\* where no draw of it is rejected, with up to MaxShapes candidates, and with
\* one when antialiasing is on; a custom shape has the size base_scale.  A first call is made with a freshly seeded
\* generator.
BuildInputs ==
    {cfg \in [width : 1..MaxBuildDim, height : 1..MaxBuildDim,
              base_scale : {1, 32}, shape_width : {None, <<2>>},
              shape_height : {None, <<2>>},
              spacing : {1, 128},
              spacing_x : {None, <<MaxBuildSpacing>>},
              spacing_y : {None, <<MaxBuildSpacing>>},
              shape_type : {"circle", "custom"}, pattern_type : PatternTypes,
              fg_color : {"red"}, scale_randomization : {0, 1},
              base_rotation : {0}, rotation_randomization : {0, 1},
              custom_image_path : FilePaths, antialiasing : BOOLEAN,
              aa_scale : {AaScale}] :
        /\ [base_scale |-> cfg.base_scale, shape_width |-> cfg.shape_width,
            shape_height |-> cfg.shape_height] \in BuildShapes
        /\ [spacing |-> cfg.spacing, spacing_x |-> cfg.spacing_x,
            spacing_y |-> cfg.spacing_y] \in BuildSpacings
        /\ cfg.height <= cfg.width
        /\ cfg.shape_type = "custom" => cfg.shape_width = None
        /\ (cfg.scale_randomization > 0 \/ cfg.rotation_randomization > 0) =>
              /\ cfg.pattern_type = "grid" /\ ~cfg.antialiasing
              /\ cfg.shape_width = None
        /\ cfg.pattern_type = "random" =>
              LET aa == AaOf(cfg)
                  n == NumShapes(aa.width, aa.height, aa.spacing_x, aa.spacing_y)
              IN  /\ n <= MaxShapes
                  /\ n <= 1 \/ ~cfg.antialiasing
                  /\ n <= 1 \/ aa.spacing_x \div 3 = 0 \/ aa.spacing_y \div 3 = 0}

\* The values the generator returns in one call of the random layout with n
\* candidates: n pairs of randint draws.
Tapes(n, width, height) ==
    [1..n -> (0..(width - 1)) \X (0..(height - 1))]

\* The random layout's loops run on the draws of a tape.
RECURSIVE RandomRun(_, _, _, _)
RandomRun(st, tape, i, a) ==
    IF st.cand < NumShapes(a.width, a.height, a.spacing_x, a.spacing_y)
           /\ i <= Len(tape)
    THEN RandomRun(AfterAttempt(st, tape[i][1], tape[i][2], a), tape, i + 1, a)
    ELSE st

RandomCoordinates(tape, a, seeded) ==
    RandomRun([coordinates |-> <<>>, cand |-> 0, attempt |-> 0, rng |-> seeded],
              tape, 1, a).coordinates

\* One iteration of the spiral layout's `while True` on its locals
\* st = [angle, acc, done]: the angle t, the points emitted, and whether the
\* loop was left.
SpiralIteration(a, st) ==
    LET r == Radius(a.spacing_x, st.angle)
        x == (a.width \div 2) * One + MulSigned(r, Cos(st.angle))
        y == (a.height \div 2) * One + MulSigned(r, Sin(st.angle))
    IN  IF r > (Min(a.width, a.height) \div 2) * One
        THEN [st EXCEPT !.done = TRUE]
        ELSE [angle |-> st.angle + Advance(a.spacing_y, r),
              acc |-> IF 0 <= x /\ x < a.width * One /\ 0 <= y /\ y < a.height * One
                      THEN Append(st.acc, <<IntOf(x), IntOf(y)>>)
                      ELSE st.acc,
              done |-> FALSE]

\* Up to 2^k iterations of the loop, stopping when it is left.
RECURSIVE SpiralIterations(_, _, _)
SpiralIterations(a, st, k) ==
    IF st.done THEN st
    ELSE IF k = 0 THEN At(st, LAMBDA s : SpiralIteration(a, s))
    ELSE At(SpiralIterations(a, st, k - 1),
            LAMBDA s : SpiralIterations(a, s, k - 1))

\* The spiral layout's loop, run to its end.
SpiralRun(a) ==
    SpiralIterations(a, [angle |-> 0, acc |-> <<>>, done |-> FALSE], SpiralDoublings)

\* generate_pattern_coordinates(aa_width, aa_height, aa_spacing_x,
\*                              aa_spacing_y, pattern_type): the list returned,
\* and whether the call was followed to its return.
Coordinates(a, tape, seeded) ==
    LET returned(list) == [coordinates |-> list, done |-> TRUE]
    IN  CASE a.pattern_type = "grid" ->
                 returned(GridCoordinates(a.width, a.height, a.spacing_x,
                                          a.spacing_y))
          [] a.pattern_type = "offset_grid" ->
                 returned(OffsetGridCoordinates(a.width, a.height, a.spacing_x,
                                                a.spacing_y))
          [] a.pattern_type = "random" ->
                 returned(RandomCoordinates(tape, a, seeded))
          [] a.pattern_type = "spiral" ->
                 At(SpiralRun(a),
                    LAMBDA st : [coordinates |-> st.acc, done |-> st.done])

\* Image.new("RGBA", (aa_width, aa_height), bg_color)
NewImage(width, height) ==
    [width |-> width, height |-> height, mode |-> "RGBA", layers |-> <<>>,
     resized |-> FALSE]

\* lines 141-143: img.resize((width, height), LANCZOS) and the blur
Downsample(img, cfg) ==
    IF cfg.antialiasing
    THEN [img EXCEPT !.width = cfg.width, !.height = cfg.height, !.resized = TRUE]
    ELSE img

\* img.convert("RGB")
Convert(img) == [img EXCEPT !.mode = "RGB"]

NoFile == [written |-> FALSE, complete |-> FALSE, img |-> NewImage(0, 0)]

NoConfig == [pattern_type |-> "none"]

\* The locals of a create_pattern call: cfg its parameters, k the number of
\* coordinates the loop has consumed, img the canvas, file what the call has
\* written to output_file, result the image returned (<<>> for none).  Besides
\* these it records whether this is a repeated call (again), the generator
\* state the layout seeded and the draws it made (seeded, tape), the scale
\* factor of each shape in halves (scale), whether a custom image was decoded
\* (decoded) and where an exception was raised (raised_in).
NoBuild ==
    [cfg |-> NoConfig, again |-> FALSE, k |-> 0, img |-> NewImage(0, 0),
     file |-> NoFile, result |-> <<>>, seeded |-> [seed |-> OsSeed(1), pos |-> 0],
     tape |-> <<>>, scale |-> <<>>, decoded |-> FALSE, raised_in |-> "none"]

NoLast ==
    [valid |-> FALSE, cfg |-> NoConfig, img |-> NewImage(0, 0),
     decoded |-> FALSE, touched |-> FALSE]

\* Draws random.uniform(-1, 1) can return, in halves, and draws
\* random.uniform(-rotation_range / 2, rotation_range / 2) can return for
\* rotation_randomization = 1.
ScaleDraws == {-2, 1}
RotationDraws == {-90, 90}

Randomized(cfg) == cfg.scale_randomization > 0 \/ cfg.rotation_randomization > 0

\* The random.uniform calls of one iteration of the loop
DrawsPerShape(cfg) ==
    (IF cfg.scale_randomization > 0 THEN 1 ELSE 0)
        + (IF cfg.rotation_randomization > 0 THEN 1 ELSE 0)

\* create_pattern up to the loop over the coordinates (lines 79-111).  The
\* generator is a function of its state: a repeated call that seeds it to the
\* state of the call before draws the same tape, any other call draws any.
StartBuild(cfg, again) ==
    LET aa == AaOf(cfg)
        a == Args(aa.width, aa.height, aa.spacing_x, aa.spacing_y, cfg.pattern_type)
        seeded == Seeded(rng, aa.width, aa.height, aa.spacing_x, aa.spacing_y)
        n == IF cfg.pattern_type = "random"
             THEN NumShapes(aa.width, aa.height, aa.spacing_x, aa.spacing_y)
             ELSE 0
    IN  /\ pc \in {"idle", "built"}
        /\ args' = a
        /\ \E tape \in Tapes(n, aa.width, aa.height) :
              /\ (again /\ cfg.pattern_type = "random" /\ seeded = build.seeded) =>
                    tape = build.tape
              /\ \E layout \in {Coordinates(a, tape, seeded)} :
                    /\ layout.done
                    /\ Len(layout.coordinates) <= MaxPlacements
                    /\ DrawsPerShape(cfg) * Len(layout.coordinates) <= MaxDraws
                    /\ coordinates' = layout.coordinates
              /\ build' = [NoBuild EXCEPT !.cfg = cfg, !.again = again,
                                          !.img = NewImage(aa.width, aa.height),
                                          !.seeded = seeded, !.tape = tape]
        /\ IF cfg.pattern_type = "random" THEN rng' \in OsStates ELSE rng' = rng
        /\ again \/ rng.pos = 0
        /\ canvas' = [NoCanvas EXCEPT !.img = NewCanvas(aa.width, aa.height)]
        /\ shape' = NoShape
        /\ pc' = "placing"
        /\ cand' = 0 /\ attempt' = 0 /\ t' = 0 /\ radii' = <<>>
        /\ UNCHANGED <<twin, files, cache>>

\* create_pattern(...), called with any configuration
CallCreatePattern ==
    /\ Callable
    /\ \E cfg \in BuildInputs : StartBuild(cfg, FALSE)
    /\ last' = NoLast

\* The caller has the image, and calls create_pattern(...) again with the
\* same configuration.
CallCreatePatternAgain ==
    /\ pc = "built"
    /\ ~build.again
    /\ last' = [valid |-> TRUE, cfg |-> build.cfg, img |-> build.result[1],
                decoded |-> build.decoded, touched |-> last.touched]
    /\ StartBuild(build.cfg, TRUE)

\* One iteration of `for x, y in coordinates` (lines 113-138)
PlaceShape ==
    /\ pc = "placing"
    /\ build.k < Len(coordinates)
    /\ LET cfg == build.cfg
           aa == AaOf(cfg)
           x == coordinates[build.k + 1][1]
           y == coordinates[build.k + 1][2]
       IN  \E u \in (IF cfg.scale_randomization > 0 THEN ScaleDraws ELSE {0}),
              v \in (IF cfg.rotation_randomization > 0 THEN RotationDraws ELSE {0}) :
              LET scale_factor == 2 - cfg.scale_randomization * u
                  current_shape_width ==
                      IF cfg.scale_randomization > 0
                      THEN Max(IntOfHalves(aa.shape_width * scale_factor), 1)
                      ELSE aa.shape_width
                  current_shape_height ==
                      IF cfg.scale_randomization > 0
                      THEN Max(IntOfHalves(aa.shape_height * scale_factor), 1)
                      ELSE aa.shape_height
                  current_rotation ==
                      IF cfg.rotation_randomization > 0
                      THEN cfg.base_rotation + v
                      ELSE cfg.base_rotation
                  made == CreateShape(cfg.shape_type, current_shape_width,
                                      current_shape_height, cfg.fg_color,
                                      current_rotation, cfg.custom_image_path)
                  paste_x == IntOfHalves(2 * x - made.img.width)
                  paste_y == IntOfHalves(2 * y - made.img.height)
                  origins == TilingOrigins(made.img.width, made.img.height,
                                           paste_x, paste_y, aa.width, aa.height)
              IN  /\ shape' = [called |-> TRUE, shape_type |-> cfg.shape_type,
                                shape_width |-> current_shape_width,
                                shape_height |-> current_shape_height,
                                color |-> cfg.fg_color,
                                rotation |-> current_rotation,
                                custom_image_path |-> cfg.custom_image_path,
                                seen |-> files[cfg.custom_image_path],
                                hit |-> <<cfg.custom_image_path, current_shape_width,
                                          current_shape_height>> \in DOMAIN cache,
                                decoded |-> made.decoded,
                                error |-> made.error,
                                img |-> made.img]
                  /\ cache' = made.cache
                  /\ canvas' = [called |-> TRUE, width |-> aa.width,
                                 height |-> aa.height,
                                 shape_width |-> made.img.width,
                                 shape_height |-> made.img.height,
                                 paste_x |-> paste_x, paste_y |-> paste_y,
                                 origins |-> origins,
                                 img |-> DrawShapeWithTiling(canvas.img,
                                             made.img.width, made.img.height,
                                             paste_x, paste_y, aa.width, aa.height)]
                  /\ build' = [build EXCEPT
                                  !.k = @ + 1,
                                  !.img.layers = Append(@, [shape |-> made.img,
                                                            origins |-> origins]),
                                  !.scale = Append(@, scale_factor),
                                  !.decoded = @ \/ made.decoded]
                  /\ rng' = [seed |-> rng.seed, pos |-> rng.pos + DrawsPerShape(cfg)]
    /\ UNCHANGED <<pc, args, coordinates, cand, attempt, twin, t, radii, files, last>>

\* The loop is over: downsample and flatten (lines 141-145).
FinishCanvas ==
    /\ pc = "placing"
    /\ build.k = Len(coordinates)
    /\ build' = [build EXCEPT !.img = Convert(Downsample(build.img, build.cfg))]
    /\ pc' = "finished"
    /\ UNCHANGED <<args, coordinates, cand, attempt, rng, twin, t, radii>>
    /\ UNCHANGED <<files, cache, shape, canvas, last>>

\* img.save(output_file) (line 146)
SaveImage ==
    /\ pc = "finished"
    /\ build' = [build EXCEPT !.file = [written |-> TRUE, complete |-> TRUE,
                                        img |-> build.img]]
    /\ pc' = "saved"
    /\ UNCHANGED <<args, coordinates, cand, attempt, rng, twin, t, radii>>
    /\ UNCHANGED <<files, cache, shape, canvas, last>>

\* print(...) and `return img` (lines 147-148)
ReturnImage ==
    /\ pc = "saved"
    /\ build' = [build EXCEPT !.result = <<build.img>>]
    /\ pc' = "built"
    /\ UNCHANGED <<args, coordinates, cand, attempt, rng, twin, t, radii>>
    /\ UNCHANGED <<files, cache, shape, canvas, last>>

\* create_pattern catches nothing: an exception raised in the loop, or by the
\* resize, the blur or the conversion, leaves the function.
RaiseBeforeSave ==
    /\ pc = "placing"
    /\ pc' = "failed"
    /\ build' = [build EXCEPT !.raised_in = "loop"]
    /\ UNCHANGED <<args, coordinates, cand, attempt, rng, twin, t, radii>>
    /\ UNCHANGED <<files, cache, shape, canvas, last>>

\* img.save raises: nothing was written, or a file that is not complete.
RaiseInSave ==
    /\ pc = "finished"
    /\ \E written \in BOOLEAN :
          build' = [build EXCEPT !.file = [written |-> written, complete |-> FALSE,
                                           img |-> NewImage(0, 0)],
                                 !.raised_in = "save"]
    /\ pc' = "failed"
    /\ UNCHANGED <<args, coordinates, cand, attempt, rng, twin, t, radii>>
    /\ UNCHANGED <<files, cache, shape, canvas, last>>

\* print raises (its stream is closed, or cannot encode the file name).
RaiseInPrint ==
    /\ pc = "saved"
    /\ pc' = "failed"
    /\ build' = [build EXCEPT !.raised_in = "print"]
    /\ UNCHANGED <<args, coordinates, cand, attempt, rng, twin, t, radii>>
    /\ UNCHANGED <<files, cache, shape, canvas, last>>

\* The caller has the image or the exception; the call's locals are gone.
BuildReturn ==
    /\ pc \in {"built", "failed"}
    /\ pc' = "idle"
    /\ last' = NoLast
    /\ build' = NoBuild
    /\ args' = NoArgs
    /\ coordinates' = <<>>
    /\ cand' = 0 /\ attempt' = 0 /\ t' = 0 /\ radii' = <<>>
    /\ shape' = NoShape
    /\ canvas' = NoCanvas
    /\ UNCHANGED <<rng, twin, files, cache>>

(***************************************************************************)
(* One pass of the placement loop of create_pattern: the paste origin of a *)
(* center the layout returned, and draw_shape_with_tiling at that origin.  *)
(***************************************************************************)
MaxPlaceSpacing == 2    \* spacings of the layout that yields the center

\* int(x - shape_img.width / 2), int(y - shape_img.height / 2)
PasteOrigin(center, side) == IntOfHalves(2 * center - side)

\* The seq as a set.
Elements(seq) == {seq[i] : i \in 1..Len(seq)}

\* The centers generate_pattern_coordinates can return.  Every point of the
\* canvas can be the first draw of the random layout, which is accepted
\* whatever it is; the spiral emits points of the canvas only.
Centers(width, height, spacing_x, spacing_y, pattern_type) ==
    CASE pattern_type = "grid" ->
             Elements(GridCoordinates(width, height, spacing_x, spacing_y))
      [] pattern_type = "offset_grid" ->
             Elements(OffsetGridCoordinates(width, height, spacing_x, spacing_y))
      [] pattern_type = "random" ->
             IF NumShapes(width, height, spacing_x, spacing_y) > 0
             THEN (0..(width - 1)) \X (0..(height - 1)) ELSE {}

\* The canvas after a shape of the given size is placed at the center (x, y)
\* of an empty canvas.
Placed(shape_width, shape_height, x, y, width, height) ==
    DrawShapeWithTiling(NewCanvas(width, height), shape_width, shape_height,
                        PasteOrigin(x, shape_width), PasteOrigin(y, shape_height),
                        width, height)

\* A shape no larger than the canvas is placed at a center of a layout.
PlaceAtCenter ==
    /\ Callable
    /\ \E width \in 1..MaxCanvasDim, height \in 1..MaxCanvasDim,
          spacing_x \in 1..MaxPlaceSpacing, spacing_y \in 1..MaxPlaceSpacing,
          pattern_type \in {"grid", "offset_grid", "random"} :
          \E shape_width \in 1..width, shape_height \in 1..height,
             c \in Centers(width, height, spacing_x, spacing_y, pattern_type) :
             LET paste_x == PasteOrigin(c[1], shape_width)
                 paste_y == PasteOrigin(c[2], shape_height)
             IN  /\ args' = Args(width, height, spacing_x, spacing_y, pattern_type)
                 /\ canvas' = [called |-> TRUE, width |-> width, height |-> height,
                                shape_width |-> shape_width,
                                shape_height |-> shape_height,
                                paste_x |-> paste_x, paste_y |-> paste_y,
                                origins |-> TilingOrigins(shape_width, shape_height,
                                                paste_x, paste_y, width, height),
                                img |-> Placed(shape_width, shape_height,
                                               c[1], c[2], width, height),
                                center |-> c]
    /\ pc' = "done"
    /\ UNCHANGED <<coordinates, cand, attempt, rng, twin, t, radii>>
    /\ UNCHANGED <<files, cache, shape, build, last>>

RenderInit ==
    /\ files = [path \in FilePaths |-> "missing"]
    /\ cache = <<>>
    /\ shape = NoShape
    /\ canvas = NoCanvas
    /\ build = NoBuild
    /\ last = NoLast

\* The caller takes the returned value; the call's locals are gone.
Return ==
    /\ pc \in {"done", "raised"}
    /\ pc' = "idle"
    /\ args' = NoArgs
    /\ coordinates' = <<>>
    /\ cand' = 0 /\ attempt' = 0 /\ t' = 0 /\ radii' = <<>>
    /\ twin' = NoTwin
    /\ shape' = NoShape
    /\ canvas' = NoCanvas
    /\ UNCHANGED <<rng, files, cache, build, last>>

vars == <<pc, args, coordinates, cand, attempt, rng, twin, t, radii,
          files, cache, shape, canvas, build, last>>

Init == LayoutInit /\ RenderInit

GridNext == CallGrid \/ CallOffsetGrid \/ Return

\* The grid and offset_grid layouts alone.
SpecGrid == Init /\ [][GridNext]_vars

RandomNext == CallRandom \/ RandomAttempt \/ RandomFinish \/ Return

\* The random layout alone, for any draws of the generator.
SpecRandom == Init /\ [][RandomNext]_vars

\* The interpreter keeps running the loops: an iteration that can run does.
FairRandom == SpecRandom /\ WF_vars(RandomAttempt) /\ WF_vars(RandomFinish)

TwinNext == TwinCall \/ TwinAttempt \/ TwinFinish \/ Return

\* Two random-layout calls side by side.
SpecTwin == Init /\ [][TwinNext]_vars

SpiralNext == CallSpiral \/ SpiralStep \/ SpiralExit \/ Return

\* The spiral layout alone.
SpecSpiral == Init /\ [][SpiralNext]_vars

\* The interpreter keeps running the loop: an iteration that can run does.
FairSpiral == SpecSpiral /\ WF_vars(SpiralStep) /\ WF_vars(SpiralExit)

ShapeNext == CallCreateShape \/ FileChange \/ Return

\* The rasterizer alone, with the files changing under it.
SpecShape == Init /\ [][ShapeNext]_vars

DrawNext == CallDrawShapeWithTiling \/ Return

\* The compositor alone.
SpecDraw == Init /\ [][DrawNext]_vars

UncheckedNext ==
    \/ CallGridUnchecked
    \/ CallRandomUnchecked \/ RandomAttempt \/ RandomRaise \/ RandomFinish
    \/ CallSpiralUnchecked \/ SpiralStep \/ SpiralExit
    \/ Return

\* The layouts called with a zero or negative argument.
SpecUnchecked == Init /\ [][UncheckedNext]_vars

\* The loops keep running.
FairUnchecked ==
    /\ SpecUnchecked
    /\ WF_vars(RandomAttempt) /\ WF_vars(RandomRaise) /\ WF_vars(RandomFinish)
    /\ WF_vars(SpiralStep) /\ WF_vars(SpiralExit)

BuildNext ==
    \/ CallCreatePattern \/ PlaceShape \/ FinishCanvas \/ SaveImage \/ ReturnImage
    \/ RaiseBeforeSave \/ RaiseInSave \/ RaiseInPrint
    \/ BuildReturn \/ FileChange

\* create_pattern called with any configuration, with the files changing
\* under it and exceptions raised in it.
SpecBuild == Init /\ [][BuildNext]_vars

RebuildNext ==
    \/ CallCreatePattern \/ CallCreatePatternAgain
    \/ PlaceShape \/ FinishCanvas \/ SaveImage \/ ReturnImage
    \/ BuildReturn \/ FileChange

\* create_pattern called, and called again with the same configuration.
SpecRebuild == Init /\ [][RebuildNext]_vars

PlaceNext == PlaceAtCenter \/ Return

\* The placement of one shape.
SpecPlace == Init /\ [][PlaceNext]_vars

Next ==
    \/ GridNext \/ RandomNext \/ TwinNext \/ SpiralNext
    \/ ShapeNext \/ DrawNext \/ UncheckedNext \/ BuildNext \/ RebuildNext
    \/ PlaceNext

\* Every operation of the module, in any order.
Spec == Init /\ [][Next]_vars

(***************************************************************************)
(* Properties of the grid layouts.                                         *)
(***************************************************************************)
Returned(kind) == pc = "done" /\ args.pattern_type = kind

Points == {coordinates[i] : i \in 1..Len(coordinates)}

NoDuplicates == Cardinality(Points) = Len(coordinates)

\* ceil(n / d) for n >= 0, d > 0
Ceil(n, d) == (n + d - 1) \div d

\* The lattice values half + i * step below limit, half being the integer
\* half-spacing step \div 2.
Lattice(step, limit) ==
    {v \in {step \div 2 + i * step : i \in 0..limit} : v < limit}

\* C1: the grid layout returns exactly the lattice points
\* (Sx/2 + i*Sx, Sy/2 + j*Sy) inside the canvas, each once (Sx/2 and Sy/2 the
\* integer half-spacings); for the 512 x 512 canvas with spacing 128 these are
\* the 16 points (64,64), (192,64), ..., (448,448).
C1_GridLattice ==
    Returned("grid") =>
        /\ Points = Lattice(args.spacing_x, args.width)
                         \X Lattice(args.spacing_y, args.height)
        /\ NoDuplicates
        /\ <<args.width, args.height, args.spacing_x, args.spacing_y>> = Scenario =>
              /\ Len(coordinates) = 16
              /\ Points = {64, 192, 320, 448} \X {64, 192, 320, 448}
              /\ coordinates[1] = <<64, 64>> /\ coordinates[2] = <<192, 64>>
              /\ coordinates[16] = <<448, 448>>

C1_Witness ==
    /\ Returned("grid")
    /\ <<args.width, args.height, args.spacing_x, args.spacing_y>> = Scenario
    /\ Len(coordinates) = 16

\* C2 as stated: the grid layout returns ceil(W/Sx) * ceil(H/Sy) points.
C2_CountIsCeilProduct ==
    Returned("grid") =>
        Len(coordinates) = Ceil(args.width, args.spacing_x)
                               * Ceil(args.height, args.spacing_y)

\* Number of elements of range(step \div 2, limit, step).
AxisCount(limit, step) ==
    IF limit <= step \div 2 THEN 0 ELSE Ceil(limit - step \div 2, step)

\* C2, amended: the grid layout returns
\* ceil((W - Sx div 2)/Sx) * ceil((H - Sy div 2)/Sy) points (a factor is 0 when
\* the canvas is not larger than the half-spacing); that is never more than
\* ceil(W/Sx) * ceil(H/Sy), and equal to it when Sx divides W and Sy divides H.
C2_GridCount ==
    Returned("grid") =>
        /\ Len(coordinates) = AxisCount(args.width, args.spacing_x)
                                  * AxisCount(args.height, args.spacing_y)
        /\ Len(coordinates) <= Ceil(args.width, args.spacing_x)
                                   * Ceil(args.height, args.spacing_y)
        /\ (args.width % args.spacing_x = 0 /\ args.height % args.spacing_y = 0) =>
              Len(coordinates) = Ceil(args.width, args.spacing_x)
                                     * Ceil(args.height, args.spacing_y)

C2_Witness ==
    /\ Returned("grid")
    /\ Len(coordinates) > 0
    /\ Len(coordinates) < Ceil(args.width, args.spacing_x)
                              * Ceil(args.height, args.spacing_y)

\* The y coordinate of row k (k = 0, 1, ...) and the number of rows.
RowY(k) == args.spacing_y \div 2 + k * args.spacing_y
NumRows == Len(Range(args.spacing_y \div 2, args.height, args.spacing_y))
RowIndices == 0..(NumRows - 1)

\* The x coordinates of row k, in emission order and as a set.
RowSeq(coords, k) == SelectSeq(coords, LAMBDA p : p[2] = RowY(k))
RowXs(k) == {p[1] : p \in {q \in Points : q[2] = RowY(k)}}

EvenRowsAreGridRows ==
    \A k \in RowIndices :
        k % 2 = 0 =>
            RowSeq(coordinates, k)
                = RowSeq(GridCoordinates(args.width, args.height,
                                         args.spacing_x, args.spacing_y), k)

\* C3 as stated: every odd row is an even row shifted right by exactly Sx/2
\* (compared after doubling, so that Sx/2 is exact for odd Sx too), and the
\* even rows are the grid layout's rows.
C3_OddRowIsShiftedEvenRow ==
    Returned("offset_grid") =>
        /\ \A k \in RowIndices :
              k % 2 = 1 =>
                  {2 * x : x \in RowXs(k)}
                      = {2 * x + args.spacing_x : x \in RowXs(0)}
        /\ EvenRowsAreGridRows

\* C3, amended: every odd row contains the x coordinates of an even row
\* shifted right by the integer half-spacing Sx div 2 (exactly Sx/2 only for
\* even Sx), plus at most one further point, which has x >= W; the even rows
\* are the grid layout's rows.
C3_OddRowContainsShiftedEvenRow ==
    Returned("offset_grid") =>
        /\ \A k \in RowIndices :
              k % 2 = 1 =>
                  LET shifted == {x + args.spacing_x \div 2 : x \in RowXs(0)}
                      extra == RowXs(k) \ shifted
                  IN  /\ shifted \subseteq RowXs(k)
                      /\ Cardinality(extra) <= 1
                      /\ \A x \in extra : x >= args.width
                      /\ Len(RowSeq(coordinates, k)) = Cardinality(RowXs(k))
        /\ EvenRowsAreGridRows

C3_Witness ==
    /\ Returned("offset_grid")
    /\ NumRows >= 3
    /\ args.spacing_x % 2 = 1
    /\ RowXs(0) # {}
    /\ RowXs(1) # {x + args.spacing_x \div 2 : x \in RowXs(0)}

(***************************************************************************)
(* Properties of the random layout.                                        *)
(***************************************************************************)
\* Toroidal distance: min(|d|, dimension - |d|)
Toroidal(d, dimension) == Min(Abs(d), dimension - Abs(d))

\* C4 as stated: every two distinct accepted points p, q satisfy
\* NOT (tdx < Sx/3 AND tdy < Sy/3), with tdx, tdy the toroidal distances
\* (tdx < Sx/3 is 3 * tdx < Sx).
C4_ToroidalSeparation ==
    args.pattern_type = "random" =>
        \A p \in Points, q \in Points :
            p # q =>
                ~ (/\ 3 * Toroidal(p[1] - q[1], args.width) < args.spacing_x
                   /\ 3 * Toroidal(p[2] - q[2], args.height) < args.spacing_y)

\* C5: two random-layout calls with identical arguments return the identical
\* sequence of points, whatever the ambient generator states before the calls.
C5_SameArgsSamePoints ==
    (Returned("random") /\ twin.active) => coordinates = twin.coordinates

C5_Witness ==
    /\ Returned("random") /\ twin.active
    /\ twin.differ
    /\ Len(coordinates) = 2
    /\ <<args.width, args.height, args.spacing_x, args.spacing_y>> = SeamCase

CenterDistance2(p) ==
    (p[1] - args.width \div 2) * (p[1] - args.width \div 2)
        + (p[2] - args.height \div 2) * (p[2] - args.height \div 2)

\* C7 as stated: the distance from the canvas centre of the integer points
\* returned is non-decreasing in emission order.
C7_EmittedDistanceMonotone ==
    args.pattern_type = "spiral" =>
        \A i \in 1..(Len(coordinates) - 1) :
            CenterDistance2(coordinates[i]) <= CenterDistance2(coordinates[i + 1])

\* C7, amended: the radius r = a * t at which each emitted point is computed
\* is non-decreasing in emission order (the distance of the truncated integer
\* coordinates is not).
C7_RadiusMonotone ==
    args.pattern_type = "spiral" =>
        /\ Len(radii) = Len(coordinates)
        /\ \A i \in 1..(Len(radii) - 1) : radii[i] <= radii[i + 1]

C7_Witness ==
    /\ Returned("spiral")
    /\ Len(radii) > 20
    /\ radii[1] < radii[Len(radii)]
    /\ \E i \in 1..(Len(coordinates) - 1) :
          CenterDistance2(coordinates[i]) > CenterDistance2(coordinates[i + 1])

(***************************************************************************)
(* Properties of the rasterizer.                                           *)
(***************************************************************************)
\* C8: create_shape returns a buffer of exactly shape_width x shape_height,
\* for every shape type (the custom image loaded, taken from the cache or
\* replaced by the fallback; an unknown type) and every rotation; to that end
\* every cached image has the size its key names.
C8_BufferHasRequestedSize ==
    /\ shape.called =>
          /\ shape.img.width = shape.shape_width
          /\ shape.img.height = shape.shape_height
    /\ \A key \in DOMAIN cache :
          cache[key].width = key[2] /\ cache[key].height = key[3]

C8_Witness ==
    /\ shape.called
    /\ shape.shape_type = "custom"
    /\ shape.hit
    /\ shape.img.content = <<"bitmap", shape.custom_image_path>>
    /\ shape.rotation = 90
    /\ shape.shape_width # shape.shape_height
    /\ shape.img.width = shape.shape_width

\* What create_shape returns for a circle of the call's size, colour and rotation.
CircleBuffer ==
    CreateShape("circle", shape.shape_width, shape.shape_height, shape.color,
                shape.rotation, shape.custom_image_path).img

\* The call's path is empty, names no file, or names a file whose decoding the
\* call attempted and saw fail.
NotLoadable ==
    \/ shape.custom_image_path = ""
    \/ shape.seen = "missing"
    \/ shape.seen = "corrupt" /\ ~shape.hit

\* C9: with shape type custom and a path that is empty, does not exist or
\* fails to decode, create_shape returns the buffer it returns for a circle of
\* the same size, colour and rotation, and the call returns.
C9_CustomFallsBackToCircle ==
    (shape.called /\ shape.shape_type = "custom" /\ NotLoadable) =>
        /\ shape.img = CircleBuffer
        /\ pc = "done"

C9_Witness ==
    /\ shape.called
    /\ shape.shape_type = "custom"
    /\ shape.seen = "corrupt" /\ ~shape.hit
    /\ shape.error
    /\ shape.rotation = 90
    /\ shape.img = CircleBuffer
    /\ pc = "done"

(***************************************************************************)
(* Properties of the compositor.                                           *)
(***************************************************************************)
\* Every shape pixel (i, j) whose position is outside the canvas is pasted at
\* that position modulo the canvas size.
Wrapped ==
    \A i \in 0..(canvas.shape_width - 1), j \in 0..(canvas.shape_height - 1) :
        LET x == canvas.paste_x + i
            y == canvas.paste_y + j
        IN  (x < 0 \/ x >= canvas.width \/ y < 0 \/ y >= canvas.height) =>
                <<i, j>> \in canvas.img[<<x % canvas.width, y % canvas.height>>]

\* C10 as stated: for any shape buffer and paste origin, every shape pixel
\* whose position (paste_x + i, paste_y + j) is outside the canvas is
\* composited at ((paste_x + i) mod W, (paste_y + j) mod H).
C10_OutsidePixelsWrap == canvas.called => Wrapped

\* The shape is no larger than the canvas and lies within one canvas period of it.
WithinOnePeriod ==
    /\ canvas.shape_width <= canvas.width
    /\ canvas.shape_height <= canvas.height
    /\ -canvas.width <= canvas.paste_x
    /\ canvas.paste_x + canvas.shape_width <= 2 * canvas.width
    /\ -canvas.height <= canvas.paste_y
    /\ canvas.paste_y + canvas.shape_height <= 2 * canvas.height

\* The wrap-around the compositor does provide.
WrapsWithinOnePeriod == (canvas.called /\ WithinOnePeriod) => Wrapped

(***************************************************************************)
(* Further properties of the layouts.                                      *)
(***************************************************************************)
\* C16 as stated: every odd-indexed row of the offset_grid layout holds at
\* least one point with x < 0 and at least one point with x >= W.
C16_OffsetRowExtendedBothEnds ==
    Returned("offset_grid") =>
        \A k \in RowIndices :
            k % 2 = 1 =>
                /\ \E x \in RowXs(k) : x < 0
                /\ \E x \in RowXs(k) : x >= args.width

\* What the offset rows do hold: no point left of the canvas, and exactly one
\* point at or beyond its right edge.
OffsetRowExtendedRightOnly ==
    Returned("offset_grid") =>
        \A k \in RowIndices :
            k % 2 = 1 =>
                /\ \A x \in RowXs(k) : x >= 0
                /\ Cardinality({x \in RowXs(k) : x >= args.width}) = 1

\* C18 as stated: the spiral emits every point it generates with radius up to
\* 1.5 * min(W, H) / 2, also outside the canvas: no point is dropped, so the
\* emitted points are the generated ones, and the loop is left only at a
\* radius above 1.5 * min(W, H) / 2 (4 * r > 3 * min(W, H)).
C18_SpiralEmitsUpToExtendedRadius ==
    Returned("spiral") =>
        4 * Radius(args.spacing_x, t) > 3 * Min(args.width, args.height) * One

\* What the spiral does: every emitted point lies inside the canvas and was
\* generated at a radius of at most min(W, H) // 2.
SpiralStaysInsideCanvas ==
    args.pattern_type = "spiral" =>
        /\ \A i \in 1..Len(coordinates) :
              /\ 0 <= coordinates[i][1] /\ coordinates[i][1] < args.width
              /\ 0 <= coordinates[i][2] /\ coordinates[i][2] < args.height
        /\ \A i \in 1..Len(radii) : radii[i] <= MaxRadius * One

\* The custom shape fell back: the call returned the circle's buffer.
FellBack ==
    /\ shape.called
    /\ shape.shape_type = "custom"
    /\ shape.img = CircleBuffer

\* C19 as stated: whenever shape type custom falls back to the circle, the
\* condition is reported; no fallback is silent.
C19_FallbackIsReported == FellBack => shape.error

\* What is reported: the fallback after a failed decoding, and only that one.
OnlyDecodeFailureReported ==
    shape.called =>
        (shape.error <=> (/\ shape.shape_type = "custom"
                          /\ shape.seen = "corrupt"
                          /\ ~shape.hit))

(***************************************************************************)
(* Properties of the custom-image cache.                                   *)
(***************************************************************************)
\* The cache key of the call, and the cached image as create_shape returns it.
ShapeKey == <<shape.custom_image_path, shape.shape_width, shape.shape_height>>

CachedAsReturned ==
    IF shape.rotation # 0 THEN Rotate(cache[ShapeKey], shape.rotation)
    ELSE cache[ShapeKey]

\* A lookup of a key the cache held when the call was made.
LookupOfCachedKey == shape.called /\ shape.shape_type = "custom" /\ shape.hit

\* No step removes a cache entry or replaces its image.
CacheOnlyGrows ==
    [][\A key \in DOMAIN cache :
           key \in DOMAIN cache' /\ cache'[key] = cache[key]]_vars

\* C15 as stated: once a key is cached, every later lookup of it returns the
\* cached buffer without decoding the file again, whatever happened to the
\* file in between.
C15_CachedKeyAlwaysServed ==
    LookupOfCachedKey => (shape.img = CachedAsReturned /\ ~shape.decoded)

\* C15, amended: no entry is ever evicted or replaced, and a later lookup of a
\* cached key returns the cached buffer without decoding the file again
\* whenever a file still exists at the path, whatever its content has become;
\* when the file is gone the lookup returns None (the caller draws the circle),
\* the entry staying in the cache.
C15_CachedKeyServedWhileFileExists ==
    /\ CacheOnlyGrows
    /\ [](LookupOfCachedKey =>
            /\ ShapeKey \in DOMAIN cache
            /\ ~shape.decoded
            /\ shape.seen # "missing" => shape.img = CachedAsReturned
            /\ shape.seen = "missing" => shape.img = CircleBuffer)

C15_Witness ==
    /\ LookupOfCachedKey
    /\ shape.seen = "corrupt"
    /\ shape.img = CachedAsReturned
    /\ shape.img.content = <<"bitmap", shape.custom_image_path>>
    /\ ~shape.decoded

(***************************************************************************)
(* Properties of the wrapped copies.                                       *)
(***************************************************************************)
CrossesLeftOrRight ==
    canvas.paste_x < 0 \/ canvas.paste_x + canvas.shape_width > canvas.width

CrossesTopOrBottom ==
    canvas.paste_y < 0 \/ canvas.paste_y + canvas.shape_height > canvas.height

\* The calls after the first, by the axes on which their origin is moved.
HorizontalCopies ==
    {i \in 2..Len(canvas.origins) :
        canvas.origins[i][1] # canvas.paste_x /\ canvas.origins[i][2] = canvas.paste_y}

VerticalCopies ==
    {i \in 2..Len(canvas.origins) :
        canvas.origins[i][1] = canvas.paste_x /\ canvas.origins[i][2] # canvas.paste_y}

DiagonalCopies ==
    {i \in 2..Len(canvas.origins) :
        canvas.origins[i][1] # canvas.paste_x /\ canvas.origins[i][2] # canvas.paste_y}

\* draw_cropped_shape applied to the origins k, k + 1, ... in turn
RECURSIVE DrawnAt(_, _, _)
DrawnAt(img, origins, k) ==
    IF k > Len(origins) THEN img
    ELSE DrawnAt(DrawCroppedShape(img, canvas.shape_width, canvas.shape_height,
                                  origins[k][1], origins[k][2],
                                  canvas.width, canvas.height),
                 origins, k + 1)

\* C20: draw_shape_with_tiling draws the original origin, one horizontally
\* wrapped copy iff the shape crosses the left or right edge, one vertically
\* wrapped copy iff it crosses the top or bottom edge, and one diagonal copy
\* iff it crosses both; the diagonal copy has the horizontal copy's x and the
\* vertical copy's y; at most four origins are drawn (and the canvas is what
\* drawing these origins gives).
C20_WrappedCopies ==
    canvas.called =>
        /\ canvas.origins[1] = <<canvas.paste_x, canvas.paste_y>>
        /\ Cardinality(HorizontalCopies) = IF CrossesLeftOrRight THEN 1 ELSE 0
        /\ Cardinality(VerticalCopies) = IF CrossesTopOrBottom THEN 1 ELSE 0
        /\ Cardinality(DiagonalCopies)
               = IF CrossesLeftOrRight /\ CrossesTopOrBottom THEN 1 ELSE 0
        /\ \A h \in HorizontalCopies :
              Abs(canvas.origins[h][1] - canvas.paste_x) = canvas.width
        /\ \A v \in VerticalCopies :
              Abs(canvas.origins[v][2] - canvas.paste_y) = canvas.height
        /\ \A d \in DiagonalCopies, h \in HorizontalCopies, v \in VerticalCopies :
              canvas.origins[d] = <<canvas.origins[h][1], canvas.origins[v][2]>>
        /\ Len(canvas.origins) <= 4
        /\ Len(canvas.origins) = 1 + Cardinality(HorizontalCopies)
               + Cardinality(VerticalCopies) + Cardinality(DiagonalCopies)
        /\ canvas.img = DrawnAt(NewCanvas(canvas.width, canvas.height),
                                canvas.origins, 1)

C20_Witness ==
    /\ canvas.called
    /\ Len(canvas.origins) = 4
    /\ canvas.paste_x < 0 /\ canvas.paste_x + canvas.shape_width > canvas.width
    /\ canvas.paste_y >= 0 /\ canvas.paste_y + canvas.shape_height > canvas.height
    /\ canvas.origins[4] = <<canvas.paste_x + canvas.width,
                             canvas.paste_y - canvas.height>>

(***************************************************************************)
(* The budget of the random layout.                                        *)
(***************************************************************************)
\* C17 as stated: the number of candidates tried is
\* floor((W/Sx) * (H/Sy) * 1.2), that is floor(12 W H / (10 Sx Sy)).
C17_CandidatesAreRealQuotient ==
    Returned("random") =>
        cand = (12 * args.width * args.height)
                   \div (10 * args.spacing_x * args.spacing_y)

\* C17, amended: the random layout tries exactly
\* floor(floor(W/Sx) * floor(H/Sy) * 1.2) candidates, makes at most 20 attempts
\* (of two draws) per candidate, accepts at most one point per candidate, gives
\* a candidate up after its 20th rejection, and always returns, with at most
\* that many points.
C17_RandomBudget ==
    /\ [](pc = "random" =>
            /\ cand <= ArgNumShapes
            /\ attempt < Attempts
            /\ Len(coordinates) <= cand
            /\ rng.pos <= 2 * (Attempts * cand + attempt))
    /\ [](Returned("random") =>
            /\ cand = ((args.width \div args.spacing_x)
                          * (args.height \div args.spacing_y) * 12) \div 10
            /\ Len(coordinates) <= cand)
    /\ [][(pc = "random" /\ pc' = "random") =>
            /\ cand' = cand \/ cand' = cand + 1
            /\ cand' = cand =>
                  (attempt' = attempt + 1 /\ coordinates' = coordinates)
            /\ cand' = cand + 1 =>
                  (\/ Len(coordinates') = Len(coordinates) + 1
                   \/ coordinates' = coordinates /\ attempt = Attempts - 1)]_vars
    /\ (pc = "random") ~> (pc = "done")

C17_Witness ==
    /\ Returned("random")
    /\ cand = 2
    /\ Len(coordinates) = 1

(***************************************************************************)
(* Arguments outside the documented domain.                                *)
(***************************************************************************)
InvalidArgs ==
    /\ args.pattern_type # "none"
    /\ \/ args.width <= 0 \/ args.height <= 0
       \/ args.spacing_x <= 0 \/ args.spacing_y <= 0

\* C14: a call with a non-positive spacing or canvas dimension never returns a
\* placement list (it fails with an error instead).
C14_InvalidInputsFailFast == InvalidArgs => pc # "done"

\* What the code does instead: only a spacing of zero raises, and not in the
\* spiral; any list can come back otherwise.
OnlyZeroSpacingOrEmptyRangeRaises ==
    (InvalidArgs /\ pc = "raised") =>
        \/ args.spacing_x = 0 \/ args.spacing_y = 0
        \/ args.pattern_type = "random" /\ (args.width <= 0 \/ args.height <= 0)

\* An unchecked spiral call leaves its loop.  It does not: with width 0 and
\* spacing_y 0 neither r nor t ever changes.
UncheckedSpiralLeaves == (pc = "spiral") ~> (pc = "done")

(***************************************************************************)
(* Properties of create_pattern.                                           *)
(***************************************************************************)
Building == build.cfg # NoConfig

\* The supersample factor of the call in progress.
Factor == IF build.cfg.antialiasing THEN build.cfg.aa_scale ELSE 1

RequestedShapeWidth == Resolved(build.cfg.shape_width, build.cfg.base_scale)
RequestedShapeHeight == Resolved(build.cfg.shape_height, build.cfg.base_scale)
RequestedSpacingX == Resolved(build.cfg.spacing_x, build.cfg.spacing)
RequestedSpacingY == Resolved(build.cfg.spacing_y, build.cfg.spacing)

\* int(side * scale_factor), at least 1, for the scale factor given in halves
ScaledSide(side, halves) == Max((side * halves) \div 2, 1)

\* The stepwise spiral and the spiral run as one value agree.
SpiralRunIsTheLoop == Returned("spiral") => coordinates = SpiralRun(args).acc

\* C12: the layout is called with the requested canvas and spacing times the
\* supersample factor (1 with antialiasing off), every shape is rasterized from
\* the requested shape size times the factor, every shape is composited onto a
\* canvas of the requested size times the factor, the canvas is resampled only
\* after the last placement, and the image returned has the requested size.
C12_SupersampledPipeline ==
    Building =>
        /\ args = Args(build.cfg.width * Factor, build.cfg.height * Factor,
                       RequestedSpacingX * Factor, RequestedSpacingY * Factor,
                       build.cfg.pattern_type)
        /\ shape.called =>
              /\ shape.shape_width =
                    ScaledSide(RequestedShapeWidth * Factor, build.scale[build.k])
              /\ shape.shape_height =
                    ScaledSide(RequestedShapeHeight * Factor, build.scale[build.k])
        /\ canvas.called =>
              /\ canvas.width = build.cfg.width * Factor
              /\ canvas.height = build.cfg.height * Factor
              /\ canvas.shape_width = shape.img.width
              /\ canvas.shape_height = shape.img.height
        /\ pc = "placing" =>
              /\ build.img.width = build.cfg.width * Factor
              /\ build.img.height = build.cfg.height * Factor
              /\ ~build.img.resized
        /\ build.img.resized =>
              /\ build.cfg.antialiasing
              /\ build.k = Len(coordinates)
              /\ Len(build.img.layers) = Len(coordinates)
        /\ pc = "built" =>
              /\ build.result[1].width = build.cfg.width
              /\ build.result[1].height = build.cfg.height
              /\ build.result[1].resized = build.cfg.antialiasing

C12_Witness ==
    /\ pc = "built"
    /\ build.cfg.antialiasing
    /\ Len(coordinates) >= 2
    /\ build.result[1].width = build.cfg.width
    /\ build.img.resized
    /\ canvas.called
    /\ canvas.width = 2 * build.cfg.width
    /\ shape.shape_width = 2 * RequestedShapeWidth
    /\ args.spacing_x = 2 * RequestedSpacingX

\* C13: the output file is written and the image returned only from the canvas
\* on which every placement was composited, and a call that raised has written
\* no output file and returned no image.
C13_AllOrNothing ==
    Building =>
        /\ (build.file.written \/ build.result # <<>>) =>
              /\ build.k = Len(coordinates)
              /\ Len(build.img.layers) = Len(coordinates)
        /\ pc = "failed" => (~build.file.written /\ build.result = <<>>)

\* What holds of the code: a complete output file and the returned image are
\* the canvas with every placement, a call that raised returns no image, and
\* it has written nothing if it raised before img.save.
NoPartialCanvas ==
    Building =>
        /\ (build.file.written /\ build.file.complete) =>
              /\ build.file.img = build.img
              /\ build.img.mode = "RGB"
              /\ Len(build.img.layers) = Len(coordinates)
        /\ build.result # <<>> =>
              /\ pc = "built"
              /\ build.result[1] = build.file.img
              /\ build.file.written /\ build.file.complete
        /\ pc = "failed" => build.result = <<>>
        /\ (pc = "failed" /\ build.raised_in = "loop") => ~build.file.written
        /\ (pc = "failed" /\ build.raised_in = "save") => ~build.file.complete
        /\ (pc = "failed" /\ build.raised_in = "print") =>
              (build.file.written /\ build.file.complete)

(***************************************************************************)
(* create_pattern called twice.                                            *)
(***************************************************************************)
\* C11: a call of create_pattern repeated with the same configuration, with
\* scale_randomization = 0 and rotation_randomization = 0, returns the image
\* the call before returned (for a custom shape: with no file changed since
\* the call before began).
C11_SameConfigurationSameImage ==
    (/\ pc = "built"
     /\ build.again
     /\ ~Randomized(build.cfg)
     /\ build.cfg.shape_type = "custom" => ~last.touched)
        => build.result[1] = last.img

\* The random layout with a custom shape: the first call decoded the file and
\* filled the cache, the repeated call read the cache.
C11_Witness ==
    /\ pc = "built"
    /\ build.again
    /\ build.cfg = last.cfg
    /\ ~Randomized(build.cfg)
    /\ build.cfg.shape_type = "custom"
    /\ build.cfg.pattern_type = "random"
    /\ ~last.touched
    /\ last.decoded /\ ~build.decoded
    /\ shape.hit
    /\ shape.img.content[1] = "bitmap"
    /\ Len(coordinates) = 2
    /\ build.result[1] = last.img

\* With the per-shape random draws the repeated call can return another image.
RandomizedRepeatsAgree ==
    (pc = "built" /\ build.again /\ Randomized(build.cfg)) =>
        build.result[1] = last.img

\* With a file changed in between the repeated call can return another image.
TouchedRepeatsAgree ==
    (pc = "built" /\ build.again /\ ~Randomized(build.cfg)) =>
        build.result[1] = last.img

(***************************************************************************)
(* Properties of draw_cropped_shape.                                       *)
(***************************************************************************)
\* The canvas before the k-th call of draw_cropped_shape.
DrawnBefore(k) ==
    DrawnAt(NewCanvas(canvas.width, canvas.height), SubSeq(canvas.origins, 1, k - 1), 1)

\* The canvas after the k-th call of draw_cropped_shape.
DrawnAfter(k) ==
    DrawCroppedShape(DrawnBefore(k), canvas.shape_width, canvas.shape_height,
                     canvas.origins[k][1], canvas.origins[k][2],
                     canvas.width, canvas.height)

\* The rectangles of the k-th call.
BoxOf(k) ==
    VisibleBox(canvas.shape_width, canvas.shape_height,
               canvas.origins[k][1], canvas.origins[k][2],
               canvas.width, canvas.height)

\* The canvas pixels under the shape placed at the k-th origin.
Covered(k) ==
    {p \in (0..(canvas.width - 1)) \X (0..(canvas.height - 1)) :
        /\ 0 <= p[1] - canvas.origins[k][1]
        /\ p[1] - canvas.origins[k][1] < canvas.shape_width
        /\ 0 <= p[2] - canvas.origins[k][2]
        /\ p[2] - canvas.origins[k][2] < canvas.shape_height}

\* C21: for every candidate origin, draw_cropped_shape either leaves the
\* canvas unchanged (when the shape rectangle does not intersect the canvas)
\* or pastes exactly the intersection: the crop rectangle lies inside the
\* shape buffer (0 <= shape_left < shape_right <= shape width, same
\* vertically), the destination rectangle lies inside the canvas, both have
\* the same size, and shape pixel (i, j) lands on canvas pixel
\* (paste_x + i, paste_y + j); no pixel outside the canvas is ever written.
C21_PastesExactlyTheIntersection ==
    canvas.called =>
        /\ \A k \in 1..Len(canvas.origins) :
            LET box == BoxOf(k)
                before == DrawnBefore(k)
                after == DrawnAfter(k)
            IN  /\ DOMAIN after = (0..(canvas.width - 1)) \X (0..(canvas.height - 1))
                /\ box.visible <=> Covered(k) # {}
                /\ Covered(k) = {} => after = before
                /\ Covered(k) # {} =>
                      /\ 0 <= box.shape_left /\ box.shape_left < box.shape_right
                      /\ box.shape_right <= canvas.shape_width
                      /\ 0 <= box.shape_top /\ box.shape_top < box.shape_bottom
                      /\ box.shape_bottom <= canvas.shape_height
                      /\ 0 <= box.left /\ box.left < box.right
                      /\ box.right <= canvas.width
                      /\ 0 <= box.top /\ box.top < box.bottom
                      /\ box.bottom <= canvas.height
                      /\ box.right - box.left = box.shape_right - box.shape_left
                      /\ box.bottom - box.top = box.shape_bottom - box.shape_top
                      /\ \A p \in DOMAIN after :
                            after[p] = IF p \in Covered(k)
                                       THEN before[p]
                                                \cup {<<p[1] - canvas.origins[k][1],
                                                        p[2] - canvas.origins[k][2]>>}
                                       ELSE before[p]
        /\ canvas.img = DrawnAfter(Len(canvas.origins))

\* A wrapped copy is cut on two sides, and another candidate origin of the
\* same call lies off the canvas and pastes nothing.
C21_Witness ==
    /\ canvas.called
    /\ Len(canvas.origins) = 4
    /\ \E k \in 1..4 :
          /\ BoxOf(k).visible
          /\ BoxOf(k).shape_left > 0 /\ BoxOf(k).shape_top > 0
          /\ BoxOf(k).shape_right < canvas.shape_width
          /\ DrawnAfter(k) # DrawnBefore(k)
    /\ \E k \in 1..4 : ~BoxOf(k).visible /\ DrawnAfter(k) = DrawnBefore(k)

(***************************************************************************)
(* Placement and the canvas period.                                        *)
(***************************************************************************)
\* The canvas when the shape of the state is placed at the center (x, y).
PlacedAt(x, y) ==
    Placed(canvas.shape_width, canvas.shape_height, x, y, canvas.width, canvas.height)

\* C22 as stated: for a shape no larger than the canvas, the paste-origin
\* computation of create_pattern followed by draw_shape_with_tiling paints
\* the same canvas pixels from the same shape pixels for a center (x, y) as
\* for the centers (x + W, y) and (x, y + H), for every integer shape size
\* and every center the layouts can produce.
C22_ShiftByOnePeriod ==
    (canvas.called /\ args.pattern_type # "none") =>
        /\ canvas.img = PlacedAt(canvas.center[1] + canvas.width, canvas.center[2])
        /\ canvas.img = PlacedAt(canvas.center[1], canvas.center[2] + canvas.height)

\* The shape has even sides and, at the center, does not reach past the right
\* or the bottom edge of the canvas.
EvenAndInsideFarEdges ==
    /\ canvas.shape_width % 2 = 0 /\ canvas.shape_height % 2 = 0
    /\ canvas.paste_x + canvas.shape_width <= canvas.width
    /\ canvas.paste_y + canvas.shape_height <= canvas.height

\* The shift invariance the code does provide.
ShiftByOnePeriodInsideFarEdges ==
    (canvas.called /\ args.pattern_type # "none" /\ EvenAndInsideFarEdges) =>
        /\ canvas.img = PlacedAt(canvas.center[1] + canvas.width, canvas.center[2])
        /\ canvas.img = PlacedAt(canvas.center[1], canvas.center[2] + canvas.height)

(***************************************************************************)
(* The layouts under supersampling.                                        *)
(***************************************************************************)
MaxFactor == 4    \* aa_scale ranges over 1..MaxFactor

\* The placements create_pattern generates for the arguments of the state
\* when antialiasing is on with the factor aa_scale.
SupersampledCoordinates(aa_scale) ==
    LET aa_width == Aa(TRUE, aa_scale, args.width)
        aa_height == Aa(TRUE, aa_scale, args.height)
        aa_spacing_x == Aa(TRUE, aa_scale, args.spacing_x)
        aa_spacing_y == Aa(TRUE, aa_scale, args.spacing_y)
    IN  IF args.pattern_type = "grid"
        THEN GridCoordinates(aa_width, aa_height, aa_spacing_x, aa_spacing_y)
        ELSE OffsetGridCoordinates(aa_width, aa_height, aa_spacing_x, aa_spacing_y)

\* C23 as stated: for layout kinds grid and offset_grid and every supersample
\* factor k >= 1, the number of placements generated for
\* (k*W, k*H, k*Sx, k*Sy) equals the number generated for (W, H, Sx, Sy).
C23_SameCountAtEveryFactor ==
    (Returned("grid") \/ Returned("offset_grid")) =>
        \A k \in 1..MaxFactor :
            Len(SupersampledCoordinates(k)) = Len(coordinates)

\* The grid layout keeps its count at every factor.
GridCountAtEveryFactor ==
    Returned("grid") =>
        \A k \in 1..MaxFactor :
            Len(SupersampledCoordinates(k)) = Len(coordinates)

\* The offset rows start at 2 * (Sx // 2): one pixel short of Sx when Sx is odd.
\* An even factor makes the spacing even and moves that start to k * Sx, which
\* costs each odd row its last point when Sx divides W.
OffsetRowLosesAPoint(k) ==
    /\ k % 2 = 0
    /\ args.spacing_x % 2 = 1
    /\ args.width % args.spacing_x = 0
    /\ NumRows >= 2

\* The offset_grid layout keeps its count except in that case, where it
\* loses one point in every odd row.
OffsetGridCountUnderSupersampling ==
    Returned("offset_grid") =>
        \A k \in 1..MaxFactor :
            Len(SupersampledCoordinates(k))
                = IF OffsetRowLosesAPoint(k)
                  THEN Len(coordinates) - NumRows \div 2
                  ELSE Len(coordinates)

====
